---- MODULE Spec2Model ----
(***************************************************************************)
(* Model of the reconciliation core of provider-temporal.                  *)
(*                                                                         *)
(* Part 1: the connector (connection cache) of the two controllers,        *)
(*   internal/controller/searchattribute/searchattribute.go                *)
(*   internal/controller/temporalnamespace/temporalnamespace.go            *)
(* Reconcile workers call Connect, use the returned external client, and   *)
(* then call Disconnect.  Every access to shared memory (the syncmap, an   *)
(* entry's usageCounter, a client's Close) is one step of a worker, so     *)
(* that all interleavings of concurrent reconciles are explored.           *)
(*                                                                         *)
(* The *external objects live in a heap of slots.  An object that neither  *)
(* the map nor any worker references any more is unreachable: its slot is  *)
(* freed for reuse, and how it ended is kept in `retired`.                 *)
(***************************************************************************)
EXTENDS Integers, FiniteSets, Sequences, TLC

\* ---------------------------------------------------------------- bounds
NumCreds    == 2     \* distinct credential blobs
MaxConnects == 3     \* Connect calls in one behaviour
MaxRetentionDays == 30   \* retentions of 1..MaxRetentionDays days (part 7)
LiveOthers  == 2     \* namespaces of others on the first page of a list
                     \* that are not marked Deleted at the start (part 3)

\* the reconcile workers of one controller, running concurrently
Workers   == {1, 2}
Creds     == 1..NumCreds

\* nil: no object
None      == 0

\* at most one object per map key and one or two per worker are reachable
ClientIds == 1..(NumCreds + 2 * Cardinality(Workers))

\* The two connectors share their code except for the usageCounter
\* accessors: SearchAttribute guards them with the RWMutex of external,
\* TemporalNamespace reads and writes the plain int field.
Connectors == {"SearchAttribute", "TemporalNamespace"}

VARIABLES
    connector,      \* which controller's connector this is
    cache,          \* externalClientsByCreds: digest -> client id or None
    clients,        \* heap of *external objects (see NoClient for the fields)
    dialed,         \* number of clients created by newServiceFn so far
    pc,             \* position of each worker in Connect / Disconnect
    creds,          \* credential blob of the worker's current reconcile
    own,            \* the client the worker dialed in this Connect
    ext,            \* local variable ext of Connect / of the Range callback
    tmp,            \* value of usageCounter read by an unlocked ++ / --
    todo,           \* keys the worker's Range still has to visit
    key,            \* key of the Range callback
    retired,        \* history: how the unreachable clients ended
    serial,         \* history: no two calls have overlapped so far
    svcConf,        \* part 2: the configuration given to NewTemporalService
    svcRes,         \* part 2: what NewTemporalService returned for it
    remote,         \* part 3: the namespaces of the remote service, by name
    crowd,          \* part 3: the namespaces of others it holds as well
    last,           \* part 3: the latest call of a namespace operation,
                    \* or the one under way
    managed,        \* part 4: the managed TemporalNamespace resource (cr)
    observation,    \* part 4: what the latest Observe returned
    phase,          \* part 4: the reconciler observes next, acts on it,
                    \* or is between the two calls of a delete
    attrs,          \* part 5: the custom search attributes of the remote
    saLast,         \* part 5: the latest call of a search attribute operation
    hk,             \* part 6: the latest hook call and what it returned
    deleting,       \* part 6: the managed resource has a deletion timestamp
    retIn,          \* part 7: the retention (days or duration) to convert
    retOut          \* part 7: what the conversion gave

\* the connector's state
connVars == <<connector, cache, clients, dialed, pc, creds, own, ext, tmp,
              todo, key, retired, serial>>

\* the state of the client library (parts 2 and later), which the connector
\* never touches
svcVars == <<svcConf, svcRes>>
nsVars  == <<remote, crowd, last>>
recVars == <<managed, observation, phase>>
saVars  == <<attrs, saLast>>
hookVars == <<hk, deleting>>
retVars == <<retIn, retOut>>
libVars == <<svcVars, nsVars, recVars, saVars, hookVars, retVars>>

vars == <<connVars, libVars>>

\* ------------------------------------------------------- pure operations

\* hash(): hex SHA-256 of the credential bytes; distinct blobs of the model
\* have distinct digests.
hash(content) == <<"sha256", content>>

Digests == {hash(c) : c \in Creds}

\* a free heap slot
NoClient ==
    [live         |-> FALSE,  \* the slot holds an object
     digest       |-> None,   \* digest of the credentials it was dialed with
     usageCounter |-> 0,      \* external.usageCounter
     closes       |-> 0,      \* calls of service.Close() so far
     stored       |-> FALSE,  \* LoadOrStore put it into the map
     evicted      |-> FALSE]  \* LoadAndDelete removed it from the map

\* &external{service: svc, logger: c.logger, id: uuid.New().String()}
NewExternal(d) == [NoClient EXCEPT !.live = TRUE, !.digest = d]

\* syncmap.Map.LoadOrStore(key, value): returns the existing value if
\* present, otherwise stores and returns the given value.
LoadOrStoreOverwrite(m, k, v) ==
    [actual |-> v, loaded |-> m[k] # None, m |-> [m EXCEPT ![k] = v]]

LoadOrStore(m, k, v) ==
    IF m[k] # None
    THEN [actual |-> m[k], loaded |-> TRUE,  m |-> m]
    ELSE [actual |-> v,    loaded |-> FALSE, m |-> [m EXCEPT ![k] = v]]

\* syncmap.Map.LoadAndDelete(key): removes whatever is stored under key.
LoadAndDeleteNoop(m, k) == m

LoadAndDelete(m, k) == [m EXCEPT ![k] = None]

\* service.Close() on client c
CloseNoop(cl, c) == cl

Close(cl, c) == [cl EXCEPT ![c].closes = @ + 1]

\* the test `ext.GetUsageCounter() == 0 && ext.service != nil` of Disconnect
\* (service is never nil for an entry built by Connect)
IsIdleAtMostOne(counter) == counter <= 1

IsIdle(counter) == counter = 0

\* ----------------------------------------- NewTemporalService (part 2)

\* A configuration blob as NewTemporalService reads it: whether the bytes
\* are JSON that unmarshals into TemporalServiceConfig, and the fields.
\* PEM strings are empty, not PEM at all, or valid matching material; a
\* host either answers the dial or does not.
PemValues  == {"", "garbage", "pem"}
HostPorts  == {"up:7233", "down:7233"}

Configs ==
    [json : BOOLEAN, hostPort : HostPorts, useTLS : BOOLEAN,
     caCertPem : PemValues, certPem : PemValues, keyPem : PemValues]

\* tls.X509KeyPair(certPem, keyPem) succeeds
X509KeyPair(certPem, keyPem) == certPem = "pem" /\ keyPem = "pem"

\* caCertPool.AppendCertsFromPEM(caCertPem) appended a certificate
AppendCertsFromPEM(caCertPem) == caCertPem = "pem"

\* client.Dial(clientOptions) connects (it calls the server eagerly)
Dial(hostPort) == hostPort = "up:7233"

\* `conf.CACertPem == "" || conf.CertPem == "" || conf.KeyPem == ""`
TLSMaterialMissingAll(conf) ==
    conf.caCertPem = "" /\ conf.certPem = "" /\ conf.keyPem = ""

TLSMaterialMissing(conf) ==
    conf.caCertPem = "" \/ conf.certPem = "" \/ conf.keyPem = ""

\* NewTemporalService(configData): the error it returns ("none": a service
\* is returned) and whether it got as far as calling client.Dial
NewTemporalService(conf) ==
    IF ~conf.json
    THEN [err |-> "failed to unmarshal config data", dial |-> FALSE]
    ELSE IF conf.useTLS /\ TLSMaterialMissing(conf)
    THEN [err |-> "TLS is enabled but one or more of the certificates or key are missing",
          dial |-> FALSE]
    ELSE IF conf.useTLS /\ ~X509KeyPair(conf.certPem, conf.keyPem)
    THEN [err |-> "failed to load client certificate", dial |-> FALSE]
    ELSE IF conf.useTLS /\ ~AppendCertsFromPEM(conf.caCertPem)
    THEN [err |-> "failed to append CA certificate", dial |-> FALSE]
    ELSE IF ~Dial(conf.hostPort)
    THEN [err |-> "failed to dial Temporal client", dial |-> TRUE]
    ELSE [err |-> "none", dial |-> TRUE]

\* The credential blobs of the connector model.  The blobs of Creds are
\* well-formed configurations of a reachable server (the even ones with
\* TLS); the blobs of BadCreds each break NewTemporalService differently.
GoodConfig(cr) ==
    [json |-> TRUE, hostPort |-> "up:7233", useTLS |-> (cr % 2 = 0),
     caCertPem |-> IF cr % 2 = 0 THEN "pem" ELSE "",
     certPem   |-> IF cr % 2 = 0 THEN "pem" ELSE "",
     keyPem    |-> IF cr % 2 = 0 THEN "pem" ELSE ""]

BadConfigs ==
    << [GoodConfig(1) EXCEPT !.json = FALSE],
       [GoodConfig(2) EXCEPT !.keyPem = ""],
       [GoodConfig(2) EXCEPT !.certPem = "garbage"],
       [GoodConfig(2) EXCEPT !.caCertPem = "garbage"],
       [GoodConfig(1) EXCEPT !.hostPort = "down:7233"] >>

BadCreds == {-i : i \in 1..Len(BadConfigs)}

Config(cr) == IF cr \in Creds THEN GoodConfig(cr) ELSE BadConfigs[-cr]

\* c.newServiceFn(creds): clients.NewSearchAttributeService /
\* clients.NewNamespaceService, both NewTemporalService
newServiceFn(cr) == NewTemporalService(Config(cr))

\* `if err != nil` after newServiceFn
FailedNever(res) == FALSE

Failed(res) == res.err # "none"

\* ------------------------------------- namespace operations (part 3)

\* a Go pointer: nil, or the address of a value
Nil    == <<>>
Ptr(v) == <<v>>

\* const day = time.Hour * 24, in hours
day == 24

\* A time.Duration is an int64 count of nanoseconds.  It is kept exactly,
\* as a sign and a magnitude of whole hours (h), seconds of the hour (s)
\* and nanoseconds of the second (n).
Hours(x) == [neg |-> FALSE, h |-> x, s |-> 0, n |-> 0]

\* 2^63 and 2^64 nanoseconds
Two63 == [h |-> 2562047, s |-> 2836, n |-> 854775808]
Two64 == [h |-> 5124095, s |-> 2073, n |-> 709551616]

DLess(a, b) ==
    \/ a.h < b.h
    \/ a.h = b.h /\ a.s < b.s
    \/ a.h = b.h /\ a.s = b.s /\ a.n < b.n

\* a - b for magnitudes a >= b
DSub(a, b) ==
    LET bn == IF a.n < b.n THEN 1 ELSE 0
        bs == IF a.s - bn < b.s THEN 1 ELSE 0
    IN  [h |-> a.h - b.h - bs,
         s |-> a.s - b.s - bn + 3600 * bs,
         n |-> a.n - b.n + 1000000000 * bn]

\* the int64 that holds the low 64 bits of a non-negative count
RECURSIVE Low64(_)
Low64(v) == IF DLess(v, Two64) THEN v ELSE Low64(DSub(v, Two64))

Int64(v) ==
    LET w == Low64(v)
    IN  IF DLess(w, Two63)
        THEN [neg |-> FALSE, h |-> w.h, s |-> w.s, n |-> w.n]
        ELSE LET m == DSub(Two64, w)
             IN  [neg |-> TRUE, h |-> m.h, s |-> m.s, n |-> m.n]

\* time.Duration(days) * day of CreateNamespace, for days >= 0
retentionDuration(days) == Int64([h |-> days * day, s |-> 0, n |-> 0])

\* time.Duration(days * int(day)) of UpdateNamespaceByName, for days >= 0;
\* int is 64 bits wide (int(day) does not compile where it is 32)
retentionTtl(days) == Int64([h |-> days * day, s |-> 0, n |-> 0])

\* int(ttl / day) of mapDescribeNamespaceResponse: the quotient is cut
\* towards zero
RetentionDays(ttl) ==
    LET q == ttl.h \div day IN IF ttl.neg THEN 0 - q ELSE q

\* PageSize: 100 of the ListNamespacesRequest
PageSize == 100

\* enums.ArchivalState_value[s] (a missing key reads as 0) and
\* ArchivalState.String()
ArchivalState_value(s) ==
    CASE s = "Disabled" -> 1
      [] s = "Enabled"  -> 2
      [] OTHER          -> 0

ArchivalStateString(e) ==
    CASE e = 1 -> "Disabled"
      [] e = 2 -> "Enabled"
      [] OTHER -> "Unspecified"

\* enums.NamespaceState.String()
NamespaceStateString(e) ==
    CASE e = 1 -> "Registered"
      [] e = 2 -> "Deprecated"
      [] e = 3 -> "Deleted"
      [] OTHER -> "Unspecified"

resolvePtrOrDefault(ptr) == IF ptr = Nil THEN "" ELSE ptr[1]

createPtrOrNilIfDefault(value) == IF value = "" THEN Nil ELSE Ptr(value)

\* A map[string]string is the set of its key/value pairs; *namespace.Data
\* or the nil map when the pointer is nil.
DataOrNil(ptr) == IF ptr = Nil THEN {} ELSE ptr[1]

\* the RegisterNamespaceRequest that CreateNamespace builds
RegisterNamespaceRequest(namespace) ==
    [namespace   |-> namespace.name,
     description |-> resolvePtrOrDefault(namespace.description),
     ownerEmail  |-> resolvePtrOrDefault(namespace.ownerEmail),
     workflowExecutionRetentionPeriod |->
         retentionDuration(namespace.workflowExecutionRetentionDays),
     data        |-> DataOrNil(namespace.data),
     historyArchivalState |-> ArchivalState_value(namespace.historyArchivalState),
     historyArchivalUri   |-> resolvePtrOrDefault(namespace.historyArchivalUri),
     visibilityArchivalState |->
         ArchivalState_value(namespace.visibilityArchivalState),
     visibilityArchivalUri |-> resolvePtrOrDefault(namespace.visibilityArchivalUri)]

\* the UpdateNamespaceRequest that UpdateNamespaceByName builds (UpdateInfo
\* and Config side by side)
UpdateNamespaceRequest(namespace) ==
    [namespace   |-> namespace.name,
     description |-> resolvePtrOrDefault(namespace.description),
     ownerEmail  |-> resolvePtrOrDefault(namespace.ownerEmail),
     data        |-> DataOrNil(namespace.data),
     historyArchivalState |-> ArchivalState_value(namespace.historyArchivalState),
     historyArchivalUri   |-> resolvePtrOrDefault(namespace.historyArchivalUri),
     visibilityArchivalState |->
         ArchivalState_value(namespace.visibilityArchivalState),
     visibilityArchivalUri |-> resolvePtrOrDefault(namespace.visibilityArchivalUri),
     workflowExecutionRetentionTtl |->
         retentionTtl(namespace.workflowExecutionRetentionDays)]

\* mapDescribeNamespaceResponse(response): a DescribeNamespaceResponse
\* (NamespaceInfo and Config side by side) as a TemporalNamespaceObservation
mapDescribeNamespaceResponse(response) ==
    [id          |-> response.id,
     name        |-> response.name,
     description |-> createPtrOrNilIfDefault(response.description),
     ownerEmail  |-> createPtrOrNilIfDefault(response.ownerEmail),
     workflowExecutionRetentionDays |->
         RetentionDays(response.workflowExecutionRetentionTtl),
     data        |-> IF Cardinality(response.data) > 0
                     THEN Ptr(response.data) ELSE Nil,
     historyArchivalState |-> ArchivalStateString(response.historyArchivalState),
     historyArchivalUri   |-> createPtrOrNilIfDefault(response.historyArchivalUri),
     visibilityArchivalState |->
         ArchivalStateString(response.visibilityArchivalState),
     visibilityArchivalUri |->
         createPtrOrNilIfDefault(response.visibilityArchivalUri),
     state       |-> NamespaceStateString(response.state)]

\* MapToNamespaceCompare(namespace): json.Marshal, then json.Unmarshal into
\* NamespaceCompare.  The fields NamespaceCompare does not declare (id,
\* state) are dropped; every declared field comes back as it went in, a
\* non-nil pointer to "" or to an empty map as a non-nil pointer (omitempty
\* leaves out nil pointers only).
CompareFields ==
    {"name", "description", "ownerEmail", "workflowExecutionRetentionDays",
     "data", "historyArchivalState", "historyArchivalUri",
     "visibilityArchivalState", "visibilityArchivalUri"}

MapToNamespaceCompare(namespace) == [f \in CompareFields |-> namespace[f]]

\* cmp.Equal on two *NamespaceCompare: deep equality; a nil pointer equals
\* only a nil pointer
cmpEqualAlways(x, y) == TRUE

cmpEqual(x, y) == x = y

\* ---- the remote service, as the wire calls of part 3 see it

\* The namespaces of the remote service: the server's own reserved one
\* and the ones the provider manages (these are kept by name in `remote`),
\* and the namespaces that belong to others: the first crowd.count of
\* OtherNames exist, and the first crowd.deleted of these are marked
\* Deleted.
Reserved   == "temporal-system"
UserNames  == {"Test001", "Test002"}
OtherName(i) == "other" \o ToString(i)
OtherNames == {OtherName(i) : i \in 1..PageSize}
OtherIndex == [n \in OtherNames |-> CHOOSE i \in 1..PageSize : OtherName(i) = n]
RemoteNames == {Reserved} \cup UserNames

\* no namespaces of others
NoCrowd == [count |-> 0, deleted |-> 0]

\* the order in which the server lists its namespaces (its own choice):
\* the reserved one, those of others, then the rest
ListOrder(others) ==
    <<Reserved>> \o [i \in 1..others.count |-> OtherName(i)]
        \o <<"Test001", "Test002">>

\* the namespace a RegisterNamespaceRequest registers (state Registered)
RegisteredNamespace(req) ==
    [id          |-> "id-" \o req.namespace,
     name        |-> req.namespace,
     description |-> req.description,
     ownerEmail  |-> req.ownerEmail,
     workflowExecutionRetentionTtl |-> req.workflowExecutionRetentionPeriod,
     data        |-> req.data,
     historyArchivalState    |-> req.historyArchivalState,
     historyArchivalUri      |-> req.historyArchivalUri,
     visibilityArchivalState |-> req.visibilityArchivalState,
     visibilityArchivalUri   |-> req.visibilityArchivalUri,
     state       |-> 1]

\* WorkflowService.RegisterNamespace: `up` is whether the call gets through
RegisterNamespace(rem, req, up) ==
    IF ~up THEN [err |-> "Unavailable", remote |-> rem]
    ELSE IF rem[req.namespace] # Nil
    THEN [err |-> "NamespaceAlreadyExists", remote |-> rem]
    ELSE [err |-> "none",
          remote |-> [rem EXCEPT ![req.namespace] = Ptr(RegisteredNamespace(req))]]

\* WorkflowService.DescribeNamespace
DescribeNamespace(rem, name, up) ==
    IF ~up THEN [err |-> "Unavailable", response |-> Nil]
    ELSE IF rem[name] = Nil
    THEN [err |-> "NamespaceNotFound", response |-> Nil]
    ELSE [err |-> "none", response |-> rem[name]]

\* WorkflowService.UpdateNamespace: a registered namespace takes every
\* field of the request
UpdateNamespace(rem, req, up) ==
    IF ~up THEN [err |-> "Unavailable", remote |-> rem]
    ELSE IF rem[req.namespace] = Nil
    THEN [err |-> "NamespaceNotFound", remote |-> rem]
    ELSE IF rem[req.namespace][1].state # 1
    THEN [err |-> "NamespaceInvalidState", remote |-> rem]
    ELSE [err |-> "none",
          remote |-> [rem EXCEPT ![req.namespace] =
             Ptr([f \in DOMAIN rem[req.namespace][1] |->
                    IF f \in DOMAIN req /\ f # "namespace"
                    THEN req[f] ELSE rem[req.namespace][1][f]])]]

\* OperatorService.DeleteNamespace.  The server marks a registered
\* namespace Deleted (3) and reclaims it later; it refuses a namespace that
\* is not registered any more.  how = "ok": the call gets through;
\* "Unavailable": the call fails.
DeleteNamespace(rem, name, how) ==
    IF how = "Unavailable" THEN [err |-> "Unavailable", remote |-> rem]
    ELSE IF rem[name] = Nil
    THEN [err |-> "NamespaceNotFound", remote |-> rem]
    ELSE IF rem[name][1].state # 1
    THEN [err |-> "NamespaceInvalidState", remote |-> rem]
    ELSE [err |-> "none",
          remote |-> [rem EXCEPT ![name] = Ptr([@[1] EXCEPT !.state = 3])]]

\* a namespace of others
OtherNamespace(n) ==
    [id |-> "id-" \o n, name |-> n, description |-> "", ownerEmail |-> "",
     workflowExecutionRetentionTtl |-> Hours(3 * day), data |-> {},
     historyArchivalState |-> 1, historyArchivalUri |-> "",
     visibilityArchivalState |-> 1, visibilityArchivalUri |-> "",
     state |-> 1]

\* all the namespaces of the server by name: those of `rem` and those of
\* others
Server(rem, others) ==
    [n \in RemoteNames \cup OtherNames |->
        IF n \in RemoteNames THEN rem[n]
        ELSE IF OtherIndex[n] > others.count THEN Nil
        ELSE Ptr([OtherNamespace(n) EXCEPT
                    !.state = IF OtherIndex[n] <= others.deleted
                              THEN 3 ELSE 1])]

\* `rem` and `others` of a server: the namespaces of others are marked
\* Deleted in their order
Provided(srv) == [n \in RemoteNames |-> srv[n]]

Others(srv) ==
    LET there(i) == srv[OtherName(i)] # Nil
        gone(i)  == there(i) /\ srv[OtherName(i)][1].state = 3
    IN  [count   |-> Cardinality({i \in 1..PageSize : there(i)}),
         deleted |-> Cardinality({i \in 1..PageSize : gone(i)})]

\* the sequence of Op(x) for the x of seq, in order
MapSeq(Op(_), seq) == [i \in 1..Len(seq) |-> Op(seq[i])]

\* WorkflowService.ListNamespaces with PageSize: the first page
FirstPage(seq) ==
    SubSeq(seq, 1, IF Len(seq) < PageSize THEN Len(seq) ELSE PageSize)

ListNamespaces(rem, others, up) ==
    IF ~up THEN [err |-> "Unavailable", namespaces |-> <<>>]
    ELSE LET srv == Server(rem, others)
             present(n) == srv[n] # Nil
             stored(n) == srv[n][1]
         IN  [err |-> "none",
              namespaces |->
                  MapSeq(stored, FirstPage(SelectSeq(ListOrder(others),
                                                     present)))]

\* ---- the operations of TemporalServiceImpl on namespaces

\* errors.As(err, &namespaceAlreadyExists)
IsAlreadyExistsNever(err) == FALSE

IsAlreadyExists(err) == err = "NamespaceAlreadyExists"

\* errors.As(err, &namespaceNotFound)
IsNotFoundNever(err) == FALSE

IsNotFound(err) == err = "NamespaceNotFound"

\* errors.As(err, &namespaceInvalidState)
IsInvalidStateNever(err) == FALSE

IsInvalidState(err) == err = "NamespaceInvalidState"

\* CreateNamespace(ctx, namespace)
CreateNamespace(rem, namespace, up) ==
    LET r == RegisterNamespace(rem, RegisterNamespaceRequest(namespace), up)
    IN  [err    |-> IF IsAlreadyExists(r.err) THEN "none" ELSE r.err,
         remote |-> r.remote]

\* DescribeNamespaceByName(ctx, name): the observation (nil when the
\* namespace is not found) and the error
DescribeNamespaceByNameNoError(rem, name, up) ==
    LET r == DescribeNamespace(rem, name, up)
    IN  IF r.err # "none" \/ r.response = Nil
        THEN [namespace |-> Nil, err |-> "none"]
        ELSE [namespace |-> Ptr(mapDescribeNamespaceResponse(r.response[1])),
              err |-> "none"]

DescribeNamespaceByName(rem, name, up) ==
    LET r == DescribeNamespace(rem, name, up)
    IN  IF IsNotFound(r.err) THEN [namespace |-> Nil, err |-> "none"]
        ELSE IF r.err # "none" THEN [namespace |-> Nil, err |-> r.err]
        ELSE IF r.response = Nil THEN [namespace |-> Nil, err |-> "none"]
        ELSE [namespace |-> Ptr(mapDescribeNamespaceResponse(r.response[1])),
              err |-> "none"]

\* DeleteNamespaceByName(ctx, name): the returned *string, the error, the
\* remote afterwards and the remote's answer to the delete call.
\* env.described: what DescribeNamespaceByName has returned, on the remote
\* as it was at that call; rem: the remote at the delete call, which comes
\* later; env.delete: how the delete call goes.
DeleteNamespaceByNameBlind(rem, name, env) ==
    LET d == env.described
        r == DeleteNamespace(rem, name, env.delete)
    IN  [marker |-> IF d.namespace # Nil THEN Ptr(d.namespace[1].name)
                    ELSE Nil,
         err    |-> IF IsInvalidState(r.err) \/ IsNotFound(r.err)
                    THEN "none" ELSE r.err,
         remote |-> r.remote,
         answer |-> IF r.err = "none" THEN "ok" ELSE r.err]

DeleteNamespaceByName(rem, name, env) ==
    LET d == env.described
        r == DeleteNamespace(rem, name, env.delete)
    IN  IF d.namespace # Nil
        THEN [marker |-> Ptr(d.namespace[1].name),
              err    |-> IF IsInvalidState(r.err) \/ IsNotFound(r.err)
                         THEN "none" ELSE r.err,
              remote |-> r.remote,
              answer |-> IF r.err = "none" THEN "ok" ELSE r.err]
        ELSE [marker |-> Nil, err |-> d.err, remote |-> rem,
              answer |-> "not asked"]

\* the filter of ListAllNamespaces
Listed(namespace) ==
    namespace.name # "temporal-system" /\ namespace.state # "Deleted"

\* ListAllNamespaces(ctx): the observations of the first page that pass
\* the filter, in the server's order
ListAllNamespaces(rem, others, up) ==
    LET r == ListNamespaces(rem, others, up)
        mapped == MapSeq(mapDescribeNamespaceResponse, r.namespaces)
    IN  [namespaces |-> SelectSeq(mapped, Listed), err |-> r.err]

\* UpdateNamespaceByName(ctx, namespace)
UpdateNamespaceByName(rem, namespace, up) ==
    UpdateNamespace(rem, UpdateNamespaceRequest(namespace), up)

\* ---- the hooks of the TemporalNamespace controller (external)

\* cr.SetConditions(...) of Observe: the condition for the remote state,
\* or the condition as it was
SetConditionsAvailable(state, condition) == "Available"

SetConditionsUnknownUnavailable(state, condition) ==
    CASE state = "Registered"  -> "Available"
      [] state = "Deleted"     -> "Deleting"
      [] OTHER                 -> "Unavailable"

SetConditions(state, condition) ==
    CASE state = "Registered"  -> "Available"
      [] state = "Unspecified" -> "Unavailable"
      [] state = "Deleted"     -> "Deleting"
      [] OTHER                 -> condition

\* external.Observe(ctx, mg): the resource afterwards, the
\* ExternalObservation and the error
ObserveForget(rem, mg, up) ==
    LET d == DescribeNamespaceByName(rem, mg.forProvider.name, up) IN
    IF d.err # "none" \/ d.namespace = Nil
    THEN [cr |-> [mg EXCEPT !.atProvider = Nil, !.condition = "Unavailable"],
          ResourceExists |-> FALSE, ResourceUpToDate |-> FALSE,
          err |-> d.err]
    ELSE LET observed == d.namespace[1] IN
         [cr |-> [mg EXCEPT !.atProvider = Ptr(observed),
                            !.condition = SetConditions(observed.state, @)],
          ResourceExists   |-> TRUE,
          ResourceUpToDate |-> cmpEqual(MapToNamespaceCompare(mg.forProvider),
                                        MapToNamespaceCompare(observed)),
          err |-> "none"]

Observe(rem, mg, up) ==
    LET d == DescribeNamespaceByName(rem, mg.forProvider.name, up) IN
    IF d.err # "none"
    THEN [cr |-> mg, ResourceExists |-> FALSE, ResourceUpToDate |-> FALSE,
          err |-> d.err]
    ELSE IF d.namespace = Nil
    THEN [cr |-> mg, ResourceExists |-> FALSE, ResourceUpToDate |-> FALSE,
          err |-> "none"]
    ELSE LET observed == d.namespace[1] IN
         [cr |-> [mg EXCEPT !.atProvider = Ptr(observed),
                            !.condition = SetConditions(observed.state, @)],
          ResourceExists   |-> TRUE,
          ResourceUpToDate |-> cmpEqual(MapToNamespaceCompare(mg.forProvider),
                                        MapToNamespaceCompare(observed)),
          err |-> "none"]

\* external.Create(ctx, mg)
CreateAlwaysNamed(rem, mg, up) ==
    LET r == CreateNamespace(rem, mg.forProvider, up) IN
    [cr |-> [mg EXCEPT !.externalName = mg.forProvider.name],
     err |-> r.err, remote |-> r.remote]

Create(rem, mg, up) ==
    LET r == CreateNamespace(rem, mg.forProvider, up) IN
    IF r.err # "none" THEN [cr |-> mg, err |-> r.err, remote |-> r.remote]
    ELSE [cr |-> [mg EXCEPT !.externalName = mg.forProvider.name],
          err |-> "none", remote |-> r.remote]

\* external.Update(ctx, mg)
Update(rem, mg, up) ==
    LET r == UpdateNamespaceByName(rem, mg.forProvider, up) IN
    [cr |-> mg, err |-> r.err, remote |-> r.remote]

\* ---- the operations of TemporalServiceImpl on search attributes

\* enums.IndexedValueType_value[s] (a missing key reads as 0) and
\* IndexedValueType.String()
IndexedValueType_valueKeyword(s) == 2

IndexedValueType_value(s) ==
    CASE s = "Text"        -> 1
      [] s = "Keyword"     -> 2
      [] s = "Int"         -> 3
      [] s = "Double"      -> 4
      [] s = "Bool"        -> 5
      [] s = "Datetime"    -> 6
      [] s = "KeywordList" -> 7
      [] OTHER             -> 0

IndexedValueTypeString(e) ==
    CASE e = 1 -> "Text"
      [] e = 2 -> "Keyword"
      [] e = 3 -> "Int"
      [] e = 4 -> "Double"
      [] e = 5 -> "Bool"
      [] e = 6 -> "Datetime"
      [] e = 7 -> "KeywordList"
      [] OTHER -> "Unspecified"

\* The namespaces a search attribute call names: one the remote has, one
\* it does not have.  attrs[ns] is Nil, or the address of the namespace's
\* custom attributes, a map from name to type kept as a set of pairs.
SaNamespaces == {"Test010", "Missing"}
SaNames      == {"test1", "test2"}

Defined(custom, name) == \E a \in custom : a[1] = name

\* OperatorService.AddSearchAttributes: `up` is whether the call gets
\* through
AddSearchAttributes(at, req, up) ==
    IF ~up THEN [err |-> "Unavailable", attrs |-> at]
    ELSE IF at[req.namespace] = Nil
    THEN [err |-> "NamespaceNotFound", attrs |-> at]
    ELSE IF \E a \in req.searchAttributes : a[2] = 0
    THEN [err |-> "InvalidArgument", attrs |-> at]
    ELSE IF \E a \in req.searchAttributes : Defined(at[req.namespace][1], a[1])
    THEN [err |-> "AlreadyExists", attrs |-> at]
    ELSE [err |-> "none",
          attrs |-> [at EXCEPT ![req.namespace] =
                        Ptr(@[1] \cup req.searchAttributes)]]

\* OperatorService.ListSearchAttributes
ListSearchAttributes(at, namespace, up) ==
    IF ~up THEN [err |-> "Unavailable", customAttributes |-> {}]
    ELSE IF at[namespace] = Nil
    THEN [err |-> "NamespaceNotFound", customAttributes |-> {}]
    ELSE [err |-> "none", customAttributes |-> at[namespace][1]]

\* OperatorService.RemoveSearchAttributes
RemoveSearchAttributes(at, req, up) ==
    IF ~up THEN [err |-> "Unavailable", attrs |-> at]
    ELSE IF at[req.namespace] = Nil
    THEN [err |-> "NamespaceNotFound", attrs |-> at]
    ELSE IF \E n \in req.searchAttributes : ~Defined(at[req.namespace][1], n)
    THEN [err |-> "NotFound", attrs |-> at]
    ELSE [err |-> "none",
          attrs |-> [at EXCEPT ![req.namespace] =
                        Ptr({a \in @[1] : a[1] \notin req.searchAttributes})]]

\* the AddSearchAttributesRequest that CreateSearchAttribute builds; the
\* namespace pointer of the parameters is dereferenced, the callers pass it
\* non-nil
AddSearchAttributesRequest(searchAttribute) ==
    [namespace |-> searchAttribute.temporalNamespaceName[1],
     searchAttributes |->
         {<<searchAttribute.name, IndexedValueType_value(searchAttribute.type)>>}]

\* CreateSearchAttribute(ctx, searchAttribute)
CreateSearchAttributeNoError(at, searchAttribute, up) ==
    [err |-> "none",
     attrs |-> AddSearchAttributes(at,
                   AddSearchAttributesRequest(searchAttribute), up).attrs]

CreateSearchAttribute(at, searchAttribute, up) ==
    AddSearchAttributes(at, AddSearchAttributesRequest(searchAttribute), up)

\* ListSearchAttributesByNamespace(ctx, namespace): the observations; the
\* order of the result is that of a Go map iteration, so the result is kept
\* as a set
ListSearchAttributesByNamespace(at, namespace, up) ==
    LET r == ListSearchAttributes(at, namespace, up)
    IN  [err |-> r.err,
         customAttributes |->
             IF r.err # "none" THEN {}
             ELSE {[name |-> a[1], type |-> IndexedValueTypeString(a[2]),
                    temporalNamespaceName |-> namespace]
                       : a \in r.customAttributes}]

\* DescribeSearchAttributeByName(ctx, namespace, name)
DescribeSearchAttributeByName(at, namespace, name, up) ==
    LET r == ListSearchAttributesByNamespace(at, namespace, up)
        hit == {a \in r.customAttributes : a.name = name}
    IN  IF r.err # "none" THEN [searchAttribute |-> Nil, err |-> r.err]
        ELSE IF hit = {} THEN [searchAttribute |-> Nil, err |-> "none"]
        ELSE [searchAttribute |-> Ptr(CHOOSE a \in hit : TRUE), err |-> "none"]

\* the RemoveSearchAttributesRequest that DeleteSearchAttributeByName builds
RemoveSearchAttributesRequest(namespace, name) ==
    [namespace |-> namespace, searchAttributes |-> {name}]

\* DeleteSearchAttributeByName(ctx, namespace, name)
DeleteSearchAttributeByName(at, namespace, name, up) ==
    RemoveSearchAttributes(at, RemoveSearchAttributesRequest(namespace, name),
                           up)

\* MapToSearchAttributeCompare(searchAttribute): json.Marshal, then
\* json.Unmarshal into SearchAttributeCompare.  Of SearchAttributeParameters
\* the namespace pointer comes back as it went in; of a
\* SearchAttributeObservation the namespace is a string, always written,
\* and comes back as a non-nil pointer.
MapToSearchAttributeCompare(searchAttribute) ==
    [name |-> searchAttribute.name, type |-> searchAttribute.type,
     temporalNamespaceName |-> searchAttribute.temporalNamespaceName]

MapObservationToSearchAttributeCompare(searchAttribute) ==
    [name |-> searchAttribute.name, type |-> searchAttribute.type,
     temporalNamespaceName |-> Ptr(searchAttribute.temporalNamespaceName)]

\* ---- the Delete hook of the TemporalNamespace controller

\* external.Delete(ctx, mg); env as for DeleteNamespaceByName
DeleteStrict(rem, mg, env) ==
    LET r == DeleteNamespaceByName(rem, mg.forProvider.name, env) IN
    [cr |-> mg,
     err |-> IF r.answer \in {"ok", "not asked"} THEN r.err ELSE r.answer,
     remote |-> r.remote]

Delete(rem, mg, env) ==
    LET r == DeleteNamespaceByName(rem, mg.forProvider.name, env) IN
    [cr |-> mg, err |-> r.err, remote |-> r.remote]

\* ---- the hooks of the SearchAttribute controller (external); each gives
\* the resource afterwards, the error, the remote afterwards and the wire
\* calls it made

\* external.Observe(ctx, mg)
SearchAttributeObserveTouch(at, mg, up) ==
    [cr |-> [mg EXCEPT !.condition = "Available"],
     ResourceExists |-> FALSE, ResourceUpToDate |-> FALSE,
     err |-> "TemporalNamespaceName not set", calls |-> <<>>]

SearchAttributeObserve(at, mg, up) ==
    IF mg.forProvider.temporalNamespaceName = Nil
    THEN [cr |-> mg, ResourceExists |-> FALSE, ResourceUpToDate |-> FALSE,
          err |-> "TemporalNamespaceName not set", calls |-> <<>>]
    ELSE
    LET d == DescribeSearchAttributeByName(at,
                 mg.forProvider.temporalNamespaceName[1],
                 mg.forProvider.name, up)
    IN
    IF d.err # "none"
    THEN [cr |-> mg, ResourceExists |-> FALSE, ResourceUpToDate |-> FALSE,
          err |-> d.err, calls |-> <<"ListSearchAttributes">>]
    ELSE IF d.searchAttribute = Nil
    THEN [cr |-> mg, ResourceExists |-> FALSE, ResourceUpToDate |-> FALSE,
          err |-> "none", calls |-> <<"ListSearchAttributes">>]
    ELSE LET observed == d.searchAttribute[1] IN
         [cr |-> [mg EXCEPT !.atProvider = Ptr(observed),
                            !.condition = "Available"],
          ResourceExists   |-> TRUE,
          ResourceUpToDate |->
              cmpEqual(MapToSearchAttributeCompare(mg.forProvider),
                       MapObservationToSearchAttributeCompare(observed)),
          err |-> "none", calls |-> <<"ListSearchAttributes">>]

\* external.Create(ctx, mg)
SearchAttributeCreateNameOnly(at, mg, up) ==
    LET r == CreateSearchAttribute(at, mg.forProvider, up) IN
    IF r.err # "none"
    THEN [cr |-> mg, err |-> r.err, attrs |-> r.attrs,
          calls |-> <<"AddSearchAttributes">>]
    ELSE [cr |-> [mg EXCEPT !.externalName = mg.forProvider.name],
          err |-> "none", attrs |-> r.attrs,
          calls |-> <<"AddSearchAttributes">>]

SearchAttributeCreate(at, mg, up) ==
    LET r == CreateSearchAttribute(at, mg.forProvider, up) IN
    IF r.err # "none"
    THEN [cr |-> mg, err |-> r.err, attrs |-> r.attrs,
          calls |-> <<"AddSearchAttributes">>]
    ELSE [cr |-> [mg EXCEPT !.externalName =
                     mg.forProvider.temporalNamespaceName[1] \o "."
                         \o mg.forProvider.name],
          err |-> "none", attrs |-> r.attrs,
          calls |-> <<"AddSearchAttributes">>]

\* external.Update(ctx, mg)
SearchAttributeUpdateThrough(at, mg, up) ==
    IF mg.forProvider.temporalNamespaceName = Nil
    THEN [cr |-> mg, err |-> "none", attrs |-> at, calls |-> <<>>]
    ELSE [cr |-> mg,
          err |-> "none",
          attrs |-> CreateSearchAttribute(
                        DeleteSearchAttributeByName(at,
                            mg.forProvider.temporalNamespaceName[1],
                            mg.forProvider.name, up).attrs,
                        mg.forProvider, up).attrs,
          calls |-> <<"RemoveSearchAttributes", "AddSearchAttributes">>]

SearchAttributeUpdate(at, mg, up) ==
    [cr |-> mg, err |-> "can not be updated", attrs |-> at, calls |-> <<>>]

\* external.Delete(ctx, mg)
SearchAttributeDeleteRetry(at, mg, up) ==
    LET r == DeleteSearchAttributeByName(at,
                 mg.forProvider.temporalNamespaceName[1],
                 mg.forProvider.name, up)
    IN  [cr |-> mg, err |-> r.err, attrs |-> r.attrs,
         calls |-> IF r.err = "none" THEN <<"RemoveSearchAttributes">>
                   ELSE <<"RemoveSearchAttributes", "RemoveSearchAttributes">>]

SearchAttributeDelete(at, mg, up) ==
    LET r == DeleteSearchAttributeByName(at,
                 mg.forProvider.temporalNamespaceName[1],
                 mg.forProvider.name, up)
    IN  [cr |-> mg, err |-> r.err, attrs |-> r.attrs,
         calls |-> <<"RemoveSearchAttributes">>]

\* ------------------------------------------------------------- helpers

Quiet == {"idle", "connected"}

\* the run stays serial as long as no worker steps while another worker is
\* inside Connect or Disconnect
Serial(w) == serial /\ \A v \in Workers \ {w} : pc[v] \in Quiet

Locked == connector = "SearchAttribute"

\* the lowest free heap slot
FreeSlot == CHOOSE c \in ClientIds :
                /\ ~clients[c].live
                /\ \A b \in ClientIds : b < c => clients[b].live

\* The heap after a step that leaves it as cl: objects reachable neither
\* from the map nor from a worker's locals are dropped and recorded.
Retire(cl) ==
    LET refs == {cache'[d] : d \in Digests} \cup {own'[w] : w \in Workers}
                    \cup {ext'[w] : w \in Workers}
        dead == {c \in ClientIds : cl[c].live /\ c \notin refs}
    IN  /\ clients' = [c \in ClientIds |-> IF c \in dead THEN NoClient ELSE cl[c]]
        /\ retired' = retired \cup
               {[stored |-> cl[c].stored, closes |-> cl[c].closes] : c \in dead}

\* no call of NewTemporalService under way (part 2 at rest)
NotCalled == [err |-> "not called", dial |-> FALSE]

SvcQuiet == svcConf = GoodConfig(1) /\ svcRes = NotCalled

\* the parameters of the tests (createDefaultNamespaceParametersWithName)
Base(name) ==
    [name        |-> name,
     description |-> Ptr("Desc1"),
     ownerEmail  |-> Ptr("Test1@mail.local"),
     workflowExecutionRetentionDays |-> 30,
     data        |-> Nil,
     historyArchivalState    |-> "Disabled",
     historyArchivalUri      |-> Nil,
     visibilityArchivalState |-> "Disabled",
     visibilityArchivalUri   |-> Nil]

\* Valid TemporalNamespaceParameters: the test parameters and the ones that
\* differ from them in one respect (an optional field absent, empty or
\* different, one day of retention, archival enabled).
Variants(p) ==
    {p}
    \cup {[p EXCEPT !.description = d] : d \in {Nil, Ptr(""), Ptr("Desc2")}}
    \cup {[p EXCEPT !.ownerEmail = m] : m \in {Nil, Ptr("")}}
    \cup {[p EXCEPT !.data = d] : d \in {Ptr({}), Ptr({<<"team", "a">>})}}
    \cup {[p EXCEPT !.historyArchivalUri = Ptr("")],
          [p EXCEPT !.visibilityArchivalUri = Ptr("")],
          [p EXCEPT !.workflowExecutionRetentionDays = 1],
          [p EXCEPT !.historyArchivalState = "Enabled",
                    !.historyArchivalUri = Ptr("file:///history")],
          [p EXCEPT !.visibilityArchivalState = "Enabled",
                    !.visibilityArchivalUri = Ptr("file:///visibility")]}

\* "Test001" with every variant, its sibling "Test002" as the tests
\* create it
Params ==
    Variants(Base("Test001"))
    \cup {Base("Test002"),
          [Base("Test002") EXCEPT !.description = Ptr("Desc2"),
                                  !.ownerEmail = Ptr("Test2@mail.local")]}

\* the server's reserved namespace
SystemNamespace ==
    RegisteredNamespace(RegisterNamespaceRequest(
        [Base(Reserved) EXCEPT !.description = Nil, !.ownerEmail = Nil,
                               !.workflowExecutionRetentionDays = 7]))

\* a remote service with nothing but its reserved namespace
EmptyRemote ==
    [n \in RemoteNames |-> IF n = Reserved THEN Ptr(SystemNamespace) ELSE Nil]

\* no namespace operation called yet
NoCall ==
    [op |-> "none", name |-> "", params |-> Nil, err |-> "none",
     marker |-> Nil, namespace |-> Nil, names |-> <<>>,
     fresh |-> FALSE, again |-> FALSE, outcome |-> "none",
     todo |-> <<>>, markers |-> <<>>]

NsQuiet == remote = EmptyRemote /\ crowd = NoCrowd /\ last = NoCall

\* a managed resource as it is first seen: no status, no condition, no
\* external name
Managed(forProvider) ==
    [forProvider |-> forProvider, atProvider |-> Nil, condition |-> "none",
     externalName |-> ""]

\* no Observe so far
NoObservation ==
    [ResourceExists |-> FALSE, ResourceUpToDate |-> FALSE, err |-> "not called"]

RecQuiet ==
    /\ managed = Managed(Base("Test001"))
    /\ observation = NoObservation
    /\ phase = "observe"

\* the remote has the namespace "Test010" with no custom search attribute
NoAttrs == [n \in SaNamespaces |-> IF n = "Test010" THEN Ptr({}) ELSE Nil]

\* no search attribute operation called yet
NoSaCall ==
    [op |-> "none", namespace |-> "", name |-> "", type |-> "",
     err |-> "none", answer |-> "none", searchAttribute |-> Nil,
     names |-> {}, again |-> FALSE]

SaQuiet == attrs = NoAttrs /\ saLast = NoSaCall

\* no hook called yet
NoHook ==
    [hook |-> "none", calls |-> <<>>, answers |-> <<>>, svcErr |-> "none",
     err |-> "none"]

HookQuiet == hk = NoHook /\ deleting = FALSE

\* no conversion asked for
NoRetention == [kind |-> "none"]

RetQuiet == retIn = NoRetention /\ retOut = NoRetention

\* the client library at rest, as it is throughout the connector's runs
LibQuiet ==
    SvcQuiet /\ NsQuiet /\ RecQuiet /\ SaQuiet /\ HookQuiet /\ RetQuiet

\* the connector at rest, before any reconcile
ConnQuiet ==
    /\ connector = "SearchAttribute"
    /\ cache = [d \in Digests |-> None]
    /\ clients = [c \in ClientIds |-> NoClient]
    /\ dialed = 0
    /\ pc = [w \in Workers |-> "idle"]
    /\ creds = [w \in Workers |-> None]
    /\ own = [w \in Workers |-> None]
    /\ ext = [w \in Workers |-> None]
    /\ tmp = [w \in Workers |-> 0]
    /\ todo = [w \in Workers |-> {}]
    /\ key = [w \in Workers |-> None]
    /\ retired = {}
    /\ serial = TRUE

\* ----------------------------------------------------------------- Init

Init ==
    /\ connector \in Connectors
    /\ cache = [d \in Digests |-> None]
    /\ clients = [c \in ClientIds |-> NoClient]
    /\ dialed = 0
    /\ pc = [w \in Workers |-> "idle"]
    /\ creds = [w \in Workers |-> None]
    /\ own = [w \in Workers |-> None]
    /\ ext = [w \in Workers |-> None]
    /\ tmp = [w \in Workers |-> 0]
    /\ todo = [w \in Workers |-> {}]
    /\ key = [w \in Workers |-> None]
    /\ retired = {}
    /\ serial = TRUE
    /\ LibQuiet

\* ------------------------------------------------------------- Connect

\* Connect up to `svc, err := c.newServiceFn(creds)` succeeding and
\* `ext := &external{...}`: the credentials are resolved and hashed, a new
\* client is dialed.
ConnectDial(w) ==
    /\ pc[w] = "idle"
    /\ dialed < MaxConnects
    /\ \E cr \in Creds \cup BadCreds :
         /\ ~Failed(newServiceFn(cr))
         /\ creds' = [creds EXCEPT ![w] = cr]
         /\ clients' = [clients EXCEPT ![FreeSlot] = NewExternal(hash(cr))]
    /\ dialed' = dialed + 1
    /\ own' = [own EXCEPT ![w] = FreeSlot]
    /\ pc' = [pc EXCEPT ![w] = "loadOrStore"]
    /\ serial' = Serial(w)
    /\ UNCHANGED libVars
    /\ UNCHANGED <<connector, cache, ext, tmp, todo, key, retired>>

\* Connect up to `svc, err := c.newServiceFn(creds)` failing: no client was
\* built, nothing is stored ...
ConnectFail(w) ==
    /\ pc[w] = "idle"
    /\ \E cr \in Creds \cup BadCreds :
         /\ Failed(newServiceFn(cr))
         /\ creds' = [creds EXCEPT ![w] = cr]
    /\ pc' = [pc EXCEPT ![w] = "failed"]
    /\ serial' = Serial(w)
    /\ UNCHANGED libVars
    /\ UNCHANGED <<connector, cache, clients, dialed, own, ext, tmp, todo, key,
                   retired>>

\* ... and `return nil, errors.Wrap(err, errNewClient)`: the reconcile ends
\* with the error, without a handle and without a Disconnect
ConnectFailReturn(w) ==
    /\ pc[w] = "failed"
    /\ creds' = [creds EXCEPT ![w] = None]
    /\ pc' = [pc EXCEPT ![w] = "idle"]
    /\ serial' = Serial(w)
    /\ UNCHANGED libVars
    /\ UNCHANGED <<connector, cache, clients, dialed, own, ext, tmp, todo, key,
                   retired>>

\* value, ok := c.externalClientsByCreds.LoadOrStore(credHash, ext)
ConnectLoadOrStore(w) ==
    /\ pc[w] = "loadOrStore"
    /\ LET r == LoadOrStore(cache, hash(creds[w]), own[w]) IN
         /\ cache' = r.m
         /\ ext' = [ext EXCEPT ![w] = r.actual]
         /\ clients' = [clients EXCEPT ![own[w]].stored =
                                          (r.m[hash(creds[w])] = own[w])]
         /\ pc' = [pc EXCEPT ![w] = IF r.loaded THEN "closeDup" ELSE "increment"]
    /\ serial' = Serial(w)
    /\ UNCHANGED libVars
    /\ UNCHANGED <<connector, dialed, creds, own, tmp, todo, key, retired>>

\* if ok { ext.service.Close(); ext = value.(*external) }
ConnectCloseDup(w) ==
    /\ pc[w] = "closeDup"
    /\ clients' = Close(clients, own[w])
    /\ pc' = [pc EXCEPT ![w] = "increment"]
    /\ serial' = Serial(w)
    /\ UNCHANGED libVars
    /\ UNCHANGED <<connector, cache, dialed, creds, own, ext, tmp, todo, key,
                   retired>>

\* the counter of ext is set and Connect returns: `return ext, nil`
Returned(w, counter) ==
    /\ pc' = [pc EXCEPT ![w] = "connected"]
    /\ tmp' = [tmp EXCEPT ![w] = 0]
    /\ own' = [own EXCEPT ![w] = None]
    /\ serial' = Serial(w)
    /\ UNCHANGED libVars
    /\ UNCHANGED <<connector, cache, dialed, creds, ext, todo, key>>
    /\ Retire([clients EXCEPT ![ext[w]].usageCounter = counter])

\* SearchAttribute: ext.IncrementUsageCounter() under the entry's lock,
\* then return ext
ConnectIncrementLocked(w) ==
    /\ pc[w] = "increment"
    /\ Locked
    /\ Returned(w, clients[ext[w]].usageCounter + 1)

\* TemporalNamespace: ext.usageCounter++ on the plain field, the read ...
ConnectIncrementLoad(w) ==
    /\ pc[w] = "increment"
    /\ ~Locked
    /\ tmp' = [tmp EXCEPT ![w] = clients[ext[w]].usageCounter]
    /\ pc' = [pc EXCEPT ![w] = "incStore"]
    /\ serial' = Serial(w)
    /\ UNCHANGED libVars
    /\ UNCHANGED <<connector, cache, clients, dialed, creds, own, ext, todo,
                   key, retired>>

\* ... and the write, then return ext
ConnectIncrementStore(w) ==
    /\ pc[w] = "incStore"
    /\ Returned(w, tmp[w] + 1)

\* ---------------------------------------------------------- Disconnect

\* Disconnect: the reconcile is over, its handle is dropped, and
\* c.externalClientsByCreds.Range(...) starts.  Range is not a snapshot: it
\* visits each key at most once, in any order, the keys present throughout
\* for sure, and a key that is stored while Range runs may be met or not.
\* todo is the set of keys this Range will come by: the keys present now,
\* and any of the others, which it visits if it finds them stored by then.
DisconnectRange(w) ==
    /\ pc[w] = "connected"
    /\ \E late \in SUBSET {d \in Digests : cache[d] = None} :
         todo' = [todo EXCEPT ![w] = {d \in Digests : cache[d] # None}
                                        \cup late]
    /\ pc' = [pc EXCEPT ![w] = "range"]
    /\ ext' = [ext EXCEPT ![w] = None]
    /\ creds' = [creds EXCEPT ![w] = None]
    /\ serial' = Serial(w)
    /\ UNCHANGED libVars
    /\ UNCHANGED <<connector, cache, dialed, own, tmp, key>>
    /\ Retire(clients)

\* Range loads the value of the next key and calls the callback with it
\* (a key deleted in the meantime, or not stored so far, is skipped); with
\* no key left Range and Disconnect return.
DisconnectNext(w) ==
    /\ pc[w] = "range"
    /\ IF todo[w] = {}
       THEN /\ pc' = [pc EXCEPT ![w] = "idle"]
            /\ UNCHANGED <<todo, key, ext>>
       ELSE \E d \in todo[w] :
            /\ todo' = [todo EXCEPT ![w] = @ \ {d}]
            /\ IF cache[d] = None
               THEN UNCHANGED <<pc, key, ext>>
               ELSE /\ key' = [key EXCEPT ![w] = d]
                    /\ ext' = [ext EXCEPT ![w] = cache[d]]
                    /\ pc' = [pc EXCEPT ![w] = "decrement"]
    /\ serial' = Serial(w)
    /\ UNCHANGED libVars
    /\ UNCHANGED <<connector, cache, clients, dialed, creds, own, tmp,
                   retired>>

\* SearchAttribute: ext.DecrementUsageCounter() under the entry's lock
DisconnectDecrementLocked(w) ==
    /\ pc[w] = "decrement"
    /\ Locked
    /\ clients' = [clients EXCEPT ![ext[w]].usageCounter = @ - 1]
    /\ pc' = [pc EXCEPT ![w] = "clampCheck"]
    /\ serial' = Serial(w)
    /\ UNCHANGED libVars
    /\ UNCHANGED <<connector, cache, dialed, creds, own, ext, tmp, todo, key,
                   retired>>

\* TemporalNamespace: ext.usageCounter-- on the plain field, the read ...
DisconnectDecrementLoad(w) ==
    /\ pc[w] = "decrement"
    /\ ~Locked
    /\ tmp' = [tmp EXCEPT ![w] = clients[ext[w]].usageCounter]
    /\ pc' = [pc EXCEPT ![w] = "decStore"]
    /\ serial' = Serial(w)
    /\ UNCHANGED libVars
    /\ UNCHANGED <<connector, cache, clients, dialed, creds, own, ext, todo,
                   key, retired>>

\* ... and the write
DisconnectDecrementStore(w) ==
    /\ pc[w] = "decStore"
    /\ clients' = [clients EXCEPT ![ext[w]].usageCounter = tmp[w] - 1]
    /\ tmp' = [tmp EXCEPT ![w] = 0]
    /\ pc' = [pc EXCEPT ![w] = "clampCheck"]
    /\ serial' = Serial(w)
    /\ UNCHANGED libVars
    /\ UNCHANGED <<connector, cache, dialed, creds, own, ext, todo, key,
                   retired>>

\* if ext.GetUsageCounter() < 0 { ... }: the read
DisconnectClampCheck(w) ==
    /\ pc[w] = "clampCheck"
    /\ pc' = [pc EXCEPT ![w] = IF clients[ext[w]].usageCounter < 0
                              THEN "clampSet" ELSE "zeroCheck"]
    /\ serial' = Serial(w)
    /\ UNCHANGED libVars
    /\ UNCHANGED <<connector, cache, clients, dialed, creds, own, ext, tmp,
                   todo, key, retired>>

\* ext.SetUsageCounter(0)
DisconnectClampSet(w) ==
    /\ pc[w] = "clampSet"
    /\ clients' = [clients EXCEPT ![ext[w]].usageCounter = 0]
    /\ pc' = [pc EXCEPT ![w] = "zeroCheck"]
    /\ serial' = Serial(w)
    /\ UNCHANGED libVars
    /\ UNCHANGED <<connector, cache, dialed, creds, own, ext, tmp, todo, key,
                   retired>>

\* if ext.GetUsageCounter() == 0 && ext.service != nil { ... } else { keep }
DisconnectZeroCheck(w) ==
    /\ pc[w] = "zeroCheck"
    /\ IF IsIdle(clients[ext[w]].usageCounter)
       THEN /\ pc' = [pc EXCEPT ![w] = "close"]
            /\ UNCHANGED <<ext, key>>
       ELSE /\ pc' = [pc EXCEPT ![w] = "range"]
            /\ ext' = [ext EXCEPT ![w] = None]
            /\ key' = [key EXCEPT ![w] = None]
    /\ serial' = Serial(w)
    /\ UNCHANGED libVars
    /\ UNCHANGED <<connector, cache, dialed, creds, own, tmp, todo>>
    /\ Retire(clients)

\* ext.service.Close()
DisconnectClose(w) ==
    /\ pc[w] = "close"
    /\ clients' = Close(clients, ext[w])
    /\ pc' = [pc EXCEPT ![w] = "loadAndDelete"]
    /\ serial' = Serial(w)
    /\ UNCHANGED libVars
    /\ UNCHANGED <<connector, cache, dialed, creds, own, ext, tmp, todo, key,
                   retired>>

\* c.externalClientsByCreds.LoadAndDelete(key); the callback returns true
DisconnectLoadAndDelete(w) ==
    /\ pc[w] = "loadAndDelete"
    /\ cache' = LoadAndDelete(cache, key[w])
    /\ pc' = [pc EXCEPT ![w] = "range"]
    /\ ext' = [ext EXCEPT ![w] = None]
    /\ key' = [key EXCEPT ![w] = None]
    /\ serial' = Serial(w)
    /\ UNCHANGED libVars
    /\ UNCHANGED <<connector, dialed, creds, own, tmp, todo>>
    /\ Retire(IF cache[key[w]] # None /\ cache'[key[w]] = None
              THEN [clients EXCEPT ![cache[key[w]]].evicted = TRUE]
              ELSE clients)

\* ----------------------------------------------------------------- Next

Next ==
    \E w \in Workers :
        \/ ConnectDial(w)
        \/ ConnectFail(w)
        \/ ConnectFailReturn(w)
        \/ ConnectLoadOrStore(w)
        \/ ConnectCloseDup(w)
        \/ ConnectIncrementLocked(w)
        \/ ConnectIncrementLoad(w)
        \/ ConnectIncrementStore(w)
        \/ DisconnectRange(w)
        \/ DisconnectNext(w)
        \/ DisconnectDecrementLocked(w)
        \/ DisconnectDecrementLoad(w)
        \/ DisconnectDecrementStore(w)
        \/ DisconnectClampCheck(w)
        \/ DisconnectClampSet(w)
        \/ DisconnectZeroCheck(w)
        \/ DisconnectClose(w)
        \/ DisconnectLoadAndDelete(w)

Spec == Init /\ [][Next]_vars

\* -------------------------------------------------------------- typing

TypeOK ==
    /\ connector \in Connectors
    /\ cache \in [Digests -> ClientIds \cup {None}]
    /\ dialed \in 0..MaxConnects
    /\ \A d \in Digests : cache[d] # None => clients[cache[d]].live
    /\ \A w \in Workers : ext[w] # None => clients[ext[w]].live
    /\ \A w \in Workers : own[w] # None => clients[own[w]].live
    /\ \A w \in Workers : todo[w] \subseteq Digests

\* ------------------------------ part 2: NewTemporalService on its own

\* NewTemporalService(configData) is called with the configuration at hand
ServiceNew ==
    /\ svcRes = NotCalled
    /\ svcRes' = NewTemporalService(svcConf)
    /\ UNCHANGED <<svcConf, connVars, nsVars, recVars, saVars, hookVars,
                   retVars>>

ServiceInit ==
    /\ ConnQuiet
    /\ svcConf \in Configs
    /\ svcRes = NotCalled
    /\ NsQuiet
    /\ RecQuiet
    /\ SaQuiet /\ HookQuiet /\ RetQuiet

ServiceNext == ServiceNew

ServiceSpec == ServiceInit /\ [][ServiceNext]_vars

\* ------------------------- part 3: the namespace operations, one caller

\* Each action is one call of an operation of TemporalServiceImpl against
\* the remote service up to its next wire call: it changes `remote` as the
\* wire call does and records the call and what it returned in `last`.
\* DeleteNamespaceByName makes two wire calls and DeleteAllNamespaces one
\* and two for each name listed; they take one action for each, and the
\* server may reclaim a namespace between them.

\* the remote's answers to choose from: a call gets through or not
Availability == BOOLEAN
\* ... and so for a delete call
DeleteOutcomes == {"ok", "Unavailable"}

\* The caller is between two calls: no DeleteNamespaceByName or
\* DeleteAllNamespaces is waiting for the remote ("deleting",
\* "deletingAll").  Whatever the latest call returned, another may follow.
Idle == last.op \notin {"deleting", "deletingAll"}

NsCreate ==
    \E p \in Params, up \in Availability :
        LET r == CreateNamespace(remote, p, up) IN
        /\ Idle
        /\ remote' = r.remote
        /\ last' = [NoCall EXCEPT
                      !.op = "create", !.name = p.name, !.params = Ptr(p),
                      !.err = r.err,
                      !.fresh = (remote[p.name] = Nil),
                      !.again = (/\ last.op = "create" /\ last.err = "none"
                                 /\ last.params = Ptr(p)),
                      !.outcome = IF up THEN "ok" ELSE "Unavailable"]
        /\ UNCHANGED <<crowd, connVars, svcVars, recVars,
                   saVars, hookVars, retVars>>

NsDescribe ==
    \E n \in UserNames, up \in Availability :
        LET r == DescribeNamespaceByName(remote, n, up) IN
        /\ Idle
        /\ last' = [NoCall EXCEPT
                      !.op = "describe", !.name = n, !.err = r.err,
                      !.namespace = r.namespace,
                      !.outcome = LET a == DescribeNamespace(remote, n, up).err
                                  IN  IF a = "none" THEN "ok" ELSE a]
        /\ UNCHANGED <<remote, crowd, connVars, svcVars, recVars,
                   saVars, hookVars, retVars>>

NsUpdate ==
    \E p \in Params, up \in Availability :
        LET r == UpdateNamespaceByName(remote, p, up) IN
        /\ Idle
        /\ remote' = r.remote
        /\ last' = [NoCall EXCEPT
                      !.op = "update", !.name = p.name, !.params = Ptr(p),
                      !.err = r.err,
                      !.outcome = IF up THEN "ok" ELSE "Unavailable"]
        /\ UNCHANGED <<crowd, connVars, svcVars, recVars,
                   saVars, hookVars, retVars>>

\* DeleteNamespaceByName up to the answer to its describe call.  Without a
\* namespace to delete it returns here; with one it goes on to the delete
\* call (op "deleting"), and the remote may change in between.
NsDelete ==
    \E n \in UserNames, up \in Availability :
        LET d == DescribeNamespaceByName(remote, n, up)
            r == DeleteNamespaceByName(remote, n,
                                       [described |-> d, delete |-> "ok"])
            call == [NoCall EXCEPT
                       !.name = n,
                       !.fresh = (remote[n] # Nil),
                       !.again = (last.op = "delete" /\ last.name = n)]
        IN
        /\ Idle
        /\ IF d.namespace # Nil
           THEN /\ last' = [call EXCEPT !.op = "deleting",
                                        !.namespace = d.namespace]
                /\ UNCHANGED remote
           ELSE /\ last' = [call EXCEPT
                              !.op = "delete", !.err = r.err,
                              !.marker = r.marker,
                              !.outcome = IF ~up THEN "describe failed"
                                          ELSE "absent"]
                /\ remote' = r.remote
        /\ UNCHANGED <<crowd, connVars, svcVars, recVars,
                   saVars, hookVars, retVars>>

\* DeleteNamespaceByName from its delete call to its return
NsDeleteCall ==
    \E how \in DeleteOutcomes :
        LET r == DeleteNamespaceByName(
                     remote, last.name,
                     [described |-> [namespace |-> last.namespace,
                                     err |-> "none"],
                      delete |-> how])
        IN
        /\ last.op = "deleting"
        /\ remote' = r.remote
        /\ last' = [last EXCEPT
                      !.op = "delete", !.namespace = Nil, !.err = r.err,
                      !.marker = r.marker, !.outcome = r.answer]
        /\ UNCHANGED <<crowd, connVars, svcVars, recVars,
                   saVars, hookVars, retVars>>

NameOf(namespace) == namespace.name

NsList ==
    \E up \in Availability :
        LET r == ListAllNamespaces(remote, crowd, up) IN
        /\ Idle
        /\ last' = [NoCall EXCEPT
                      !.op = "list", !.err = r.err,
                      !.names = MapSeq(NameOf, r.namespaces),
                      !.outcome = IF up THEN "ok" ELSE "Unavailable"]
        /\ UNCHANGED <<remote, crowd, connVars, svcVars, recVars,
                   saVars, hookVars, retVars>>

\* DeleteAllNamespaces(ctx): what it returns, once the loop has come to
\* the end of `todo` or DeleteNamespaceByName has returned the error err
DeleteAllNamespacesReturn(markers, err) ==
    [NoCall EXCEPT !.op = "deleteAll", !.markers = markers, !.err = err]

\* DeleteAllNamespaces up to the answer to its list call: the names to
\* delete, in the order listed (op "deletingAll"), or the return
NsDeleteAll ==
    \E up \in Availability :
        LET r == ListAllNamespaces(remote, crowd, up) IN
        /\ Idle
        /\ last' = IF r.err # "none" \/ r.namespaces = <<>>
                   THEN DeleteAllNamespacesReturn(<<>>, r.err)
                   ELSE [NoCall EXCEPT
                           !.op = "deletingAll",
                           !.todo = MapSeq(NameOf, r.namespaces)]
        /\ UNCHANGED <<remote, crowd, connVars, svcVars, recVars,
                   saVars, hookVars, retVars>>

\* the loop of DeleteAllNamespaces after DeleteNamespaceByName has returned
\* r for the first name of todo
DeleteAllNamespacesLoop(r) ==
    IF r.err # "none" THEN DeleteAllNamespacesReturn(last.markers, r.err)
    ELSE IF Len(last.todo) = 1
    THEN DeleteAllNamespacesReturn(Append(last.markers, r.marker), "none")
    ELSE [last EXCEPT !.todo = Tail(@), !.namespace = Nil,
                      !.markers = Append(@, r.marker)]

\* DeleteAllNamespaces at the describe call of DeleteNamespaceByName for
\* the next name
NsDeleteAllDescribe ==
    \E up \in Availability :
        LET n == Head(last.todo)
            d == DescribeNamespaceByName(Server(remote, crowd), n, up)
            r == DeleteNamespaceByName(Server(remote, crowd), n,
                                       [described |-> d, delete |-> "ok"])
        IN
        /\ last.op = "deletingAll"
        /\ last.namespace = Nil
        /\ last' = IF d.namespace # Nil
                   THEN [last EXCEPT !.namespace = d.namespace]
                   ELSE DeleteAllNamespacesLoop(r)
        /\ UNCHANGED <<remote, crowd, connVars, svcVars, recVars,
                   saVars, hookVars, retVars>>

\* DeleteAllNamespaces at the delete call of DeleteNamespaceByName for the
\* name just described
NsDeleteAllCall ==
    \E how \in DeleteOutcomes :
        LET n == Head(last.todo)
            r == DeleteNamespaceByName(
                     Server(remote, crowd), n,
                     [described |-> [namespace |-> last.namespace,
                                     err |-> "none"],
                      delete |-> how])
        IN
        /\ last.op = "deletingAll"
        /\ last.namespace # Nil
        /\ remote' = Provided(r.remote)
        /\ crowd' = Others(r.remote)
        /\ last' = DeleteAllNamespacesLoop(r)
        /\ UNCHANGED <<connVars, svcVars, recVars,
                   saVars, hookVars, retVars>>

\* the server has reclaimed a deleted namespace
RemoteReclaim ==
    \E n \in UserNames :
        /\ remote[n] # Nil
        /\ remote[n][1].state = 3
        /\ remote' = [remote EXCEPT ![n] = Nil]
        /\ UNCHANGED <<last, crowd, connVars, svcVars, recVars,
                   saVars, hookVars, retVars>>

\* the remote before the first call: no namespace of the provider yet, and
\* none or a page full of namespaces of others, of which the owners have
\* deleted all but LiveOthers of the first page and the one after it (the
\* server has not reclaimed them yet)
NsInit ==
    /\ ConnQuiet
    /\ SvcQuiet
    /\ remote = EmptyRemote
    /\ crowd \in {NoCrowd,
                  [count |-> PageSize,
                   deleted |-> PageSize - 1 - LiveOthers]}
    /\ last = NoCall
    /\ RecQuiet
    /\ SaQuiet /\ HookQuiet /\ RetQuiet

NsNext ==
    \/ NsCreate
    \/ NsDescribe
    \/ NsUpdate
    \/ NsDelete
    \/ NsDeleteCall
    \/ NsList
    \/ NsDeleteAll
    \/ NsDeleteAllDescribe
    \/ NsDeleteAllCall
    \/ RemoteReclaim

NsSpec == NsInit /\ [][NsNext]_vars

\* ------------------- part 4: the reconcile loop of one TemporalNamespace

\* The managed reconciler polls: Observe, then Create if the resource does
\* not exist, Update if it is not up to date, nothing otherwise; then the
\* next poll.  The desired parameters stay as they are, every remote call
\* gets through, and nobody else writes to the remote.

RecObserve ==
    /\ phase = "observe"
    /\ LET o == Observe(remote, managed, TRUE) IN
         /\ managed' = o.cr
         /\ observation' = [ResourceExists |-> o.ResourceExists,
                            ResourceUpToDate |-> o.ResourceUpToDate,
                            err |-> o.err]
    /\ phase' = "act"
    /\ UNCHANGED <<remote, crowd, last, connVars, svcVars,
                   saVars, hookVars, retVars>>

RecCreate ==
    /\ phase = "act"
    /\ ~observation.ResourceExists
    /\ LET r == Create(remote, managed, TRUE) IN
         /\ managed' = r.cr
         /\ remote' = r.remote
    /\ phase' = "observe"
    /\ UNCHANGED <<observation, crowd, last, connVars, svcVars,
                   saVars, hookVars, retVars>>

RecUpdate ==
    /\ phase = "act"
    /\ observation.ResourceExists
    /\ ~observation.ResourceUpToDate
    /\ LET r == Update(remote, managed, TRUE) IN
         /\ managed' = r.cr
         /\ remote' = r.remote
    /\ phase' = "observe"
    /\ UNCHANGED <<observation, crowd, last, connVars, svcVars,
                   saVars, hookVars, retVars>>

RecSettled ==
    /\ phase = "act"
    /\ observation.ResourceExists
    /\ observation.ResourceUpToDate
    /\ phase' = "observe"
    /\ UNCHANGED <<managed, observation, remote, crowd, last, connVars, svcVars,
                   saVars, hookVars, retVars>>

\* any valid desired parameters, and a remote on which the namespace does
\* not exist yet or exists with parameters of its own
RecInit ==
    /\ ConnQuiet
    /\ SvcQuiet
    /\ crowd = NoCrowd
    /\ last = NoCall
    /\ \E p \in Variants(Base("Test001")) : managed = Managed(p)
    /\ \/ remote = EmptyRemote
       \/ \E p \in Variants(Base("Test001")) :
            remote = CreateNamespace(EmptyRemote, p, TRUE).remote
    /\ observation = NoObservation
    /\ phase = "observe"
    /\ SaQuiet /\ HookQuiet /\ RetQuiet

RecNext ==
    \/ RecObserve
    \/ RecCreate
    \/ RecUpdate
    \/ RecSettled

\* the scheduler keeps polling
RecSpec == RecInit /\ [][RecNext]_vars /\ WF_vars(RecNext)

\* -------------------- part 5: the search attribute operations, one caller

\* the parameters of the calls: the tests' (createSearchAttributeParameters),
\* another type, and a type the enum does not know
SaTypes == {"Keyword", "Int", "Bogus"}

SaParams ==
    {[name |-> n, type |-> t, temporalNamespaceName |-> Ptr(ns)]
        : n \in SaNames, t \in SaTypes, ns \in SaNamespaces}

SaCreate ==
    \E p \in SaParams, up \in Availability :
        LET r == CreateSearchAttribute(attrs, p, up) IN
        /\ attrs' = r.attrs
        /\ saLast' = [NoSaCall EXCEPT
                        !.op = "create",
                        !.namespace = p.temporalNamespaceName[1],
                        !.name = p.name, !.type = p.type,
                        !.err = r.err,
                        !.answer =
                            AddSearchAttributes(attrs,
                                AddSearchAttributesRequest(p), up).err,
                        !.again = (/\ saLast.op = "create"
                                   /\ saLast.err = "none"
                                   /\ saLast.namespace = p.temporalNamespaceName[1]
                                   /\ saLast.name = p.name
                                   /\ saLast.type = p.type)]
        /\ UNCHANGED <<connVars, svcVars, nsVars, recVars, hookVars, retVars>>

SaDescribe ==
    \E ns \in SaNamespaces, n \in SaNames, up \in Availability :
        LET r == DescribeSearchAttributeByName(attrs, ns, n, up) IN
        /\ saLast' = [NoSaCall EXCEPT
                        !.op = "describe", !.namespace = ns, !.name = n,
                        !.err = r.err,
                        !.answer = ListSearchAttributes(attrs, ns, up).err,
                        !.searchAttribute = r.searchAttribute]
        /\ UNCHANGED <<attrs, connVars, svcVars, nsVars, recVars, hookVars,
                       retVars>>

SaList ==
    \E ns \in SaNamespaces, up \in Availability :
        LET r == ListSearchAttributesByNamespace(attrs, ns, up) IN
        /\ saLast' = [NoSaCall EXCEPT
                        !.op = "list", !.namespace = ns, !.err = r.err,
                        !.answer = ListSearchAttributes(attrs, ns, up).err,
                        !.names = {a.name : a \in r.customAttributes}]
        /\ UNCHANGED <<attrs, connVars, svcVars, nsVars, recVars, hookVars,
                       retVars>>

SaDelete ==
    \E ns \in SaNamespaces, n \in SaNames, up \in Availability :
        LET r == DeleteSearchAttributeByName(attrs, ns, n, up) IN
        /\ attrs' = r.attrs
        /\ saLast' = [NoSaCall EXCEPT
                        !.op = "delete", !.namespace = ns, !.name = n,
                        !.err = r.err,
                        !.answer =
                            RemoveSearchAttributes(attrs,
                                RemoveSearchAttributesRequest(ns, n), up).err,
                        !.again = (/\ saLast.op = "delete"
                                   /\ saLast.namespace = ns
                                   /\ saLast.name = n)]
        /\ UNCHANGED <<connVars, svcVars, nsVars, recVars, hookVars, retVars>>

SaInit ==
    /\ ConnQuiet
    /\ SvcQuiet
    /\ NsQuiet
    /\ RecQuiet
    /\ SaQuiet
    /\ HookQuiet
    /\ RetQuiet

SaNext ==
    \/ SaCreate
    \/ SaDescribe
    \/ SaList
    \/ SaDelete

SaSpec == SaInit /\ [][SaNext]_vars

\* ----------- part 6: the hooks of one managed resource, as the managed
\* reconciler calls them

\* Each poll of the reconciler calls Observe and, unless Observe failed:
\* Delete when the resource has a deletion timestamp and exists remotely,
\* Create when it does not exist, Update when it is not up to date, nothing
\* otherwise.  `connector` says whose controller this is.  Any remote call
\* may fail, the remote changes under other writers, and the resource may
\* be deleted by its owner at any time.  hk records the hook called, the
\* wire calls it made, the remote's answers to them, the error of the
\* service operation and the error the hook returned.

IsNs == connector = "TemporalNamespace"
IsSa == connector = "SearchAttribute"

\* the desired parameters of the namespace resource
HookParams ==
    {Base("Test001"),
     [Base("Test001") EXCEPT !.description = Nil],
     [Base("Test001") EXCEPT !.description = Ptr("")],
     [Base("Test001") EXCEPT !.workflowExecutionRetentionDays = 1]}

\* the desired parameters of the search attribute resource; the namespace
\* name may still be unresolved
HookSaParams ==
    {[name |-> "test1", type |-> t, temporalNamespaceName |-> ns]
        : t \in {"Keyword", "Int"}, ns \in {Nil, Ptr("Test010"), Ptr("Missing")}}

Answer(err) == IF err = "none" THEN "ok" ELSE err

Observed(o) ==
    [ResourceExists |-> o.ResourceExists,
     ResourceUpToDate |-> o.ResourceUpToDate, err |-> o.err]

NsHookObserve ==
    /\ IsNs /\ phase = "observe"
    /\ \E up \in Availability :
         LET o == Observe(remote, managed, up) IN
         /\ managed' = o.cr
         /\ observation' = Observed(o)
         /\ hk' = [hook |-> "Observe",
                   calls |-> <<"DescribeNamespace">>,
                   answers |-> <<Answer(DescribeNamespace(remote,
                                     managed.forProvider.name, up).err)>>,
                   svcErr |-> DescribeNamespaceByName(remote,
                                  managed.forProvider.name, up).err,
                   err |-> o.err]
    /\ phase' = "act"
    /\ UNCHANGED <<remote, crowd, last, deleting, connVars, svcVars, saVars,
                   retVars>>

NsHookCreate ==
    /\ IsNs /\ phase = "act"
    /\ observation.err = "none" /\ ~deleting /\ ~observation.ResourceExists
    /\ \E up \in Availability :
         LET r == Create(remote, managed, up) IN
         /\ managed' = r.cr
         /\ remote' = r.remote
         /\ hk' = [hook |-> "Create",
                   calls |-> <<"RegisterNamespace">>,
                   answers |-> <<Answer(RegisterNamespace(remote,
                                     RegisterNamespaceRequest(managed.forProvider),
                                     up).err)>>,
                   svcErr |-> CreateNamespace(remote, managed.forProvider,
                                              up).err,
                   err |-> r.err]
    /\ phase' = "observe"
    /\ UNCHANGED <<observation, crowd, last, deleting, connVars, svcVars,
                   saVars, retVars>>

\* Create whose remote call is cut off after the request left (the context
\* is cancelled, the deadline passes, the connection is lost): the call
\* returns an error, and the server has served the request or has not
NsHookCreateCancelled ==
    /\ IsNs /\ phase = "act"
    /\ observation.err = "none" /\ ~deleting /\ ~observation.ResourceExists
    /\ \E served \in BOOLEAN :
         LET r == Create(remote, managed, FALSE)
             req == RegisterNamespaceRequest(managed.forProvider)
         IN
         /\ managed' = r.cr
         /\ remote' = IF served THEN RegisterNamespace(remote, req, TRUE).remote
                       ELSE r.remote
         /\ hk' = [hook |-> "Create",
                   calls |-> <<"RegisterNamespace">>,
                   answers |-> <<Answer(RegisterNamespace(remote, req,
                                                          FALSE).err)>>,
                   svcErr |-> CreateNamespace(remote, managed.forProvider,
                                              FALSE).err,
                   err |-> r.err]
    /\ phase' = "observe"
    /\ UNCHANGED <<observation, crowd, last, deleting, connVars, svcVars,
                   saVars, retVars>>

NsHookUpdate ==
    /\ IsNs /\ phase = "act"
    /\ observation.err = "none" /\ ~deleting
    /\ observation.ResourceExists /\ ~observation.ResourceUpToDate
    /\ \E up \in Availability :
         LET r == Update(remote, managed, up) IN
         /\ managed' = r.cr
         /\ remote' = r.remote
         /\ hk' = [hook |-> "Update",
                   calls |-> <<"UpdateNamespace">>,
                   answers |-> <<Answer(UpdateNamespace(remote,
                                     UpdateNamespaceRequest(managed.forProvider),
                                     up).err)>>,
                   svcErr |-> UpdateNamespaceByName(remote,
                                  managed.forProvider, up).err,
                   err |-> r.err]
    /\ phase' = "observe"
    /\ UNCHANGED <<observation, crowd, last, deleting, connVars, svcVars,
                   saVars, retVars>>

\* external.Delete up to the answer to the describe call of
\* DeleteNamespaceByName.  Without a namespace to delete the hook returns
\* here; with one it goes on to the delete call (phase "deleting", the
\* namespace described kept in hk), and the remote may change in between.
NsHookDelete ==
    /\ IsNs /\ phase = "act"
    /\ observation.err = "none" /\ deleting /\ observation.ResourceExists
    /\ \E up \in Availability :
         LET d == DescribeNamespace(remote, managed.forProvider.name, up)
             env == [described |-> DescribeNamespaceByName(
                                       remote, managed.forProvider.name, up),
                     delete |-> "ok"]
             r == Delete(remote, managed, env)
             s == DeleteNamespaceByName(remote, managed.forProvider.name, env)
         IN
         IF env.described.namespace # Nil
         THEN /\ hk' = [hook |-> "Deleting",
                        calls |-> <<"DescribeNamespace">>,
                        answers |-> <<Answer(d.err)>>,
                        svcErr |-> "none", err |-> "none",
                        described |-> env.described.namespace]
              /\ phase' = "deleting"
              /\ UNCHANGED <<managed, remote>>
         ELSE /\ managed' = r.cr
              /\ remote' = r.remote
              /\ hk' = [hook |-> "Delete",
                        calls |-> IF s.answer = "not asked"
                                  THEN <<"DescribeNamespace">>
                                  ELSE <<"DescribeNamespace", "DeleteNamespace">>,
                        answers |-> IF s.answer = "not asked"
                                    THEN <<Answer(d.err)>>
                                    ELSE <<Answer(d.err), s.answer>>,
                        svcErr |-> s.err,
                        err |-> r.err]
              /\ phase' = "observe"
    /\ UNCHANGED <<observation, crowd, last, deleting, connVars, svcVars,
                   saVars, retVars>>

\* external.Delete from the delete call of DeleteNamespaceByName to its
\* return
NsHookDeleteCall ==
    /\ IsNs /\ phase = "deleting"
    /\ \E how \in DeleteOutcomes :
         LET env == [described |-> [namespace |-> hk.described,
                                    err |-> "none"],
                     delete |-> how]
             r == Delete(remote, managed, env)
             s == DeleteNamespaceByName(remote, managed.forProvider.name, env)
         IN
         /\ managed' = r.cr
         /\ remote' = r.remote
         /\ hk' = [hook |-> "Delete",
                   calls |-> IF s.answer = "not asked"
                             THEN hk.calls
                             ELSE Append(hk.calls, "DeleteNamespace"),
                   answers |-> IF s.answer = "not asked"
                               THEN hk.answers
                               ELSE Append(hk.answers, s.answer),
                   svcErr |-> s.err,
                   err |-> r.err]
    /\ phase' = "observe"
    /\ UNCHANGED <<observation, crowd, last, deleting, connVars, svcVars,
                   saVars, retVars>>

\* the answers of the remote to the wire calls of a search attribute hook
SaAnswers(calls, mg, up) ==
    LET ns == mg.forProvider.temporalNamespaceName[1]
        one(call) ==
            CASE call = "ListSearchAttributes" ->
                     Answer(ListSearchAttributes(attrs, ns, up).err)
              [] call = "AddSearchAttributes" ->
                     Answer(AddSearchAttributes(attrs,
                                AddSearchAttributesRequest(mg.forProvider),
                                up).err)
              [] call = "RemoveSearchAttributes" ->
                     Answer(RemoveSearchAttributes(attrs,
                                RemoveSearchAttributesRequest(ns,
                                    mg.forProvider.name), up).err)
    IN  [i \in 1..Len(calls) |-> one(calls[i])]

SaHookObserve ==
    /\ IsSa /\ phase = "observe"
    /\ \E up \in Availability :
         LET o == SearchAttributeObserve(attrs, managed, up) IN
         /\ managed' = o.cr
         /\ observation' = Observed(o)
         /\ hk' = [hook |-> "Observe", calls |-> o.calls,
                   answers |-> SaAnswers(o.calls, managed, up),
                   svcErr |-> IF o.calls = <<>> THEN "none"
                              ELSE DescribeSearchAttributeByName(attrs,
                                       managed.forProvider.temporalNamespaceName[1],
                                       managed.forProvider.name, up).err,
                   err |-> o.err]
    /\ phase' = "act"
    /\ UNCHANGED <<attrs, saLast, deleting, connVars, svcVars, nsVars, retVars>>

SaHookCreate ==
    /\ IsSa /\ phase = "act"
    /\ observation.err = "none" /\ ~deleting /\ ~observation.ResourceExists
    /\ \E up \in Availability :
         LET r == SearchAttributeCreate(attrs, managed, up) IN
         /\ managed' = r.cr
         /\ attrs' = r.attrs
         /\ hk' = [hook |-> "Create", calls |-> r.calls,
                   answers |-> SaAnswers(r.calls, managed, up),
                   svcErr |-> CreateSearchAttribute(attrs, managed.forProvider,
                                                    up).err,
                   err |-> r.err]
    /\ phase' = "observe"
    /\ UNCHANGED <<observation, saLast, deleting, connVars, svcVars, nsVars,
                   retVars>>

SaHookUpdate ==
    /\ IsSa /\ phase = "act"
    /\ observation.err = "none" /\ ~deleting
    /\ observation.ResourceExists /\ ~observation.ResourceUpToDate
    /\ \E up \in Availability :
         LET r == SearchAttributeUpdate(attrs, managed, up) IN
         /\ managed' = r.cr
         /\ attrs' = r.attrs
         /\ hk' = [hook |-> "Update", calls |-> r.calls,
                   answers |-> SaAnswers(r.calls, managed, up),
                   svcErr |-> "none",
                   err |-> r.err]
    /\ phase' = "observe"
    /\ UNCHANGED <<observation, saLast, deleting, connVars, svcVars, nsVars,
                   retVars>>

SaHookDelete ==
    /\ IsSa /\ phase = "act"
    /\ observation.err = "none" /\ deleting /\ observation.ResourceExists
    /\ \E up \in Availability :
         LET r == SearchAttributeDelete(attrs, managed, up) IN
         /\ managed' = r.cr
         /\ attrs' = r.attrs
         /\ hk' = [hook |-> "Delete", calls |-> r.calls,
                   answers |-> SaAnswers(r.calls, managed, up),
                   svcErr |-> DeleteSearchAttributeByName(attrs,
                                  managed.forProvider.temporalNamespaceName[1],
                                  managed.forProvider.name, up).err,
                   err |-> r.err]
    /\ phase' = "observe"
    /\ UNCHANGED <<observation, saLast, deleting, connVars, svcVars, nsVars,
                   retVars>>

\* Observe failed, or there is nothing to do: the next poll.  A resource
\* with a deletion timestamp that does not exist remotely is let go.
HookRequeue ==
    /\ phase = "act"
    /\ \/ observation.err # "none"
       \/ /\ ~deleting
          /\ observation.ResourceExists /\ observation.ResourceUpToDate
    /\ phase' = "observe"
    /\ UNCHANGED <<managed, observation, hookVars, connVars, svcVars, nsVars,
                   saVars, retVars>>

HookLetGo ==
    /\ phase = "act"
    /\ observation.err = "none" /\ deleting /\ ~observation.ResourceExists
    /\ phase' = "gone"
    /\ UNCHANGED <<managed, observation, hookVars, connVars, svcVars, nsVars,
                   saVars, retVars>>

\* the owner deletes the managed resource
HookMarkDeleted ==
    /\ ~deleting /\ phase # "gone"
    /\ deleting' = TRUE
    /\ UNCHANGED <<hk, connVars, svcVars, nsVars, recVars, saVars, retVars>>

\* the reference to the owning namespace is resolved
HookResolve ==
    /\ IsSa /\ phase = "observe"
    /\ managed.forProvider.temporalNamespaceName = Nil
    /\ managed' = [managed EXCEPT
                     !.forProvider.temporalNamespaceName = Ptr("Test010")]
    /\ UNCHANGED <<observation, phase, hookVars, connVars, svcVars, nsVars,
                   saVars, retVars>>

\* another writer, or the server itself, changes the namespace: its state,
\* its description, or it is gone
HookRemoteNamespace ==
    /\ IsNs /\ phase # "gone"
    /\ remote["Test001"] # Nil
    /\ \/ \E st \in 0..3 :
            remote' = [remote EXCEPT !["Test001"] = Ptr([@[1] EXCEPT !.state = st])]
       \/ remote' = [remote EXCEPT !["Test001"] =
                        Ptr([@[1] EXCEPT !.description = "Desc2"])]
       \/ remote' = [remote EXCEPT !["Test001"] = Nil]
    /\ UNCHANGED <<crowd, last, recVars, hookVars, connVars, svcVars, saVars,
                   retVars>>

\* another client registers the namespace
HookRemoteRegister ==
    /\ IsNs /\ phase # "gone"
    /\ remote["Test001"] = Nil
    /\ \E p \in HookParams :
         remote' = RegisterNamespace(remote, RegisterNamespaceRequest(p),
                                     TRUE).remote
    /\ UNCHANGED <<crowd, last, recVars, hookVars, connVars, svcVars, saVars,
                   retVars>>

\* another writer adds the attribute with some type, or removes it
HookRemoteAttribute ==
    /\ IsSa /\ phase # "gone"
    /\ \/ \E t \in {2, 3} :
            attrs' = [attrs EXCEPT !["Test010"] = Ptr({<<"test1", t>>})]
       \/ attrs' = NoAttrs
    /\ UNCHANGED <<saLast, recVars, hookVars, connVars, svcVars, nsVars,
                   retVars>>

HookInit ==
    /\ connector \in Connectors
    /\ cache = [d \in Digests |-> None]
    /\ clients = [c \in ClientIds |-> NoClient]
    /\ dialed = 0
    /\ pc = [w \in Workers |-> "idle"]
    /\ creds = [w \in Workers |-> None]
    /\ own = [w \in Workers |-> None]
    /\ ext = [w \in Workers |-> None]
    /\ tmp = [w \in Workers |-> 0]
    /\ todo = [w \in Workers |-> {}]
    /\ key = [w \in Workers |-> None]
    /\ retired = {}
    /\ serial = TRUE
    /\ SvcQuiet
    /\ NsQuiet
    /\ SaQuiet
    /\ HookQuiet
    /\ RetQuiet
    /\ \/ IsNs /\ \E p \in HookParams : managed = Managed(p)
       \/ IsSa /\ \E p \in HookSaParams : managed = Managed(p)
    /\ observation = NoObservation
    /\ phase = "observe"

HookNext ==
    \/ NsHookObserve
    \/ NsHookCreate
    \/ NsHookCreateCancelled
    \/ NsHookUpdate
    \/ NsHookDelete
    \/ NsHookDeleteCall
    \/ SaHookObserve
    \/ SaHookCreate
    \/ SaHookUpdate
    \/ SaHookDelete
    \/ HookRequeue
    \/ HookLetGo
    \/ HookMarkDeleted
    \/ HookResolve
    \/ HookRemoteNamespace
    \/ HookRemoteRegister
    \/ HookRemoteAttribute

HookSpec == HookInit /\ [][HookNext]_vars

\* ---------------------- part 7: the conversion of the retention, alone

\* The retention of a namespace is given in days, sent as a duration by
\* CreateNamespace and UpdateNamespaceByName, and read back as days by
\* mapDescribeNamespaceResponse.  retIn is the days to send, or a duration
\* the remote holds (also one that this provider did not send); retOut is
\* the duration sent, then the days read back.

\* the largest number of days whose duration fits an int64
LastExactDays == 106751

RetDays == (1..MaxRetentionDays) \cup {LastExactDays, LastExactDays + 1}

RetDurations ==
    {[neg |-> FALSE, h |-> x, s |-> y, n |-> 0]
        : x \in {0, 23, 24, 36, 47, 48}, y \in {0, 1}}

WithRetention(days) ==
    [Base("Test001") EXCEPT !.workflowExecutionRetentionDays = days]

\* the observation of a remote namespace with this retention
ReadBack(ttl) ==
    mapDescribeNamespaceResponse(
        [RegisteredNamespace(RegisterNamespaceRequest(Base("Test001")))
            EXCEPT !.workflowExecutionRetentionTtl = ttl])
        .workflowExecutionRetentionDays

RetCreate ==
    /\ retIn.kind = "days" /\ retOut = NoRetention
    /\ retOut' = [kind |-> "create",
                  ttl |-> RegisterNamespaceRequest(WithRetention(retIn.days))
                              .workflowExecutionRetentionPeriod]
    /\ UNCHANGED <<retIn, connVars, svcVars, nsVars, recVars, saVars, hookVars>>

RetUpdate ==
    /\ retIn.kind = "days" /\ retOut = NoRetention
    /\ retOut' = [kind |-> "update",
                  ttl |-> UpdateNamespaceRequest(WithRetention(retIn.days))
                              .workflowExecutionRetentionTtl]
    /\ UNCHANGED <<retIn, connVars, svcVars, nsVars, recVars, saVars, hookVars>>

RetDescribe ==
    /\ \/ retOut.kind \in {"create", "update"}
          /\ retOut' = [kind |-> "days", ttl |-> retOut.ttl,
                        days |-> ReadBack(retOut.ttl)]
       \/ retIn.kind = "duration" /\ retOut = NoRetention
          /\ retOut' = [kind |-> "days", ttl |-> retIn.ttl,
                        days |-> ReadBack(retIn.ttl)]
    /\ UNCHANGED <<retIn, connVars, svcVars, nsVars, recVars, saVars, hookVars>>

RetInit ==
    /\ ConnQuiet
    /\ SvcQuiet
    /\ NsQuiet
    /\ RecQuiet
    /\ SaQuiet
    /\ HookQuiet
    /\ retIn \in {[kind |-> "days", days |-> d] : d \in RetDays}
                    \cup {[kind |-> "duration", ttl |-> t] : t \in RetDurations}
    /\ retOut = NoRetention

RetNext ==
    \/ RetCreate
    \/ RetUpdate
    \/ RetDescribe

RetSpec == RetInit /\ [][RetNext]_vars

\* ---------------------------------------------------------------- claims

\* the worker holds the entry LoadOrStore gave it (in Connect or after it)
HasEntry(w) == pc[w] \in {"closeDup", "increment", "incStore", "connected"}

\* this step is the return of w's Connect
Returns(w) == pc[w] \in {"increment", "incStore"} /\ pc'[w] = "connected"

AllIdle == \A w \in Workers : pc[w] = "idle"

\* C1: Connect never returns a handle whose client has already been closed
\* (stated as the claim; the code violates it).
C1_ConnectNeverReturnsClosed ==
    [][\A w \in Workers : Returns(w) => clients[ext[w]].closes = 0]_vars

\* C2: no step closes a cached client while a reconcile that obtained it
\* from Connect has not yet started its own Disconnect (stated as the claim;
\* the code violates it).
C2_NoCloseWhileInUse ==
    [][\A c \in ClientIds :
         (clients[c].stored /\ clients'[c].closes > clients[c].closes)
            => ~\E w \in Workers : pc[w] = "connected" /\ ext[w] = c]_vars

\* C3: two Connects with the same credentials hold the same cache entry,
\* unless one of the two entries has been evicted by a Disconnect sweep.
C3_SameCredsSameClient ==
    \A w1, w2 \in Workers :
        (HasEntry(w1) /\ HasEntry(w2) /\ creds[w1] = creds[w2]
            /\ ext[w1] # ext[w2])
        => (clients[ext[w1]].evicted \/ clients[ext[w2]].evicted)

\* C3 witness: both workers returned from Connect with the same credentials
\* and share one live, cached, open client.
C3_Witness ==
    \E w1, w2 \in Workers :
        /\ w1 # w2
        /\ pc[w1] = "connected" /\ pc[w2] = "connected"
        /\ creds[w1] = creds[w2]
        /\ ext[w1] = ext[w2]
        /\ cache[hash(creds[w1])] = ext[w1]
        /\ clients[ext[w1]].closes = 0

\* C4: in a serial run, once every Connect has been followed by its
\* Disconnect sweep (N Connects, N sweeps, all workers idle again) the cache
\* is empty and every client is gone with Close called exactly once on it.
C4_ConnectsThenSweepsCloseOnce ==
    (serial /\ AllIdle /\ dialed >= 1)
    => /\ \A d \in Digests : cache[d] = None
       /\ \A c \in ClientIds : ~clients[c].live
       /\ \E r \in retired : r.stored
       /\ \A r \in retired : r.closes = 1

\* C4 witness: two serial Connects with the same credentials (the second
\* one found the first one's entry and closed its duplicate) followed by two
\* sweeps.
C4_Witness ==
    /\ serial /\ AllIdle /\ dialed = 2
    /\ \A d \in Digests : cache[d] = None
    /\ retired = {[stored |-> TRUE, closes |-> 1],
                  [stored |-> FALSE, closes |-> 1]}

NoEviction ==
    /\ \A c \in ClientIds : ~clients[c].evicted
    /\ \A r \in retired : ~r.stored

\* C5: as long as no entry has been evicted, concurrent Connects for one
\* digest resolve to a single stored client, every caller holds that
\* entry, and a losing caller's own client is closed (once) before its
\* Connect returns.
C5_SingleWinner ==
    NoEviction =>
       /\ \A d \in Digests :
            Cardinality({c \in ClientIds : clients[c].stored
                                            /\ clients[c].digest = d}) <= 1
       /\ \A w \in Workers :
            HasEntry(w) => /\ ext[w] = cache[hash(creds[w])]
                           /\ clients[ext[w]].stored
       /\ \A w \in Workers :
            (pc[w] \in {"increment", "incStore"} /\ own[w] # ext[w])
               => /\ clients[own[w]].closes = 1
                  /\ ~clients[own[w]].stored
       /\ \A r \in retired : r.closes = 1

\* C5 witness: two Connects for one digest in flight at once, the winner
\* has stored its client but not yet counted it, the loser has closed its
\* own client and holds the winner's.
C5_Witness ==
    \E w1, w2 \in Workers :
        /\ pc[w1] = "increment" /\ pc[w2] = "increment"
        /\ creds[w1] = creds[w2]
        /\ own[w1] = ext[w1] /\ ext[w2] = ext[w1] /\ own[w2] # ext[w2]
        /\ clients[own[w2]].closes = 1
        /\ clients[ext[w1]].usageCounter = 0
        /\ NoEviction

\* C6: with no Disconnect begun so far, k finished Connects for a digest
\* leave its entry's counter at exactly k, in either connector (stated as
\* the claim; the TemporalNamespace connector violates it).
C6_NoLostUpdate ==
    (/\ \A w \in Workers : pc[w] \in Quiet
     /\ dialed = Cardinality({w \in Workers : pc[w] = "connected"}))
    => \A d \in Digests :
         cache[d] # None =>
            clients[cache[d]].usageCounter =
               Cardinality({w \in Workers : pc[w] = "connected"
                                             /\ hash(creds[w]) = d})

\* C7: the reference count of every entry is >= 0 in every reachable state
\* (stated as the claim; the code violates it).
C7_CounterNeverNegative ==
    \A c \in ClientIds : clients[c].usageCounter >= 0

\* C8: a sweep closes and evicts an entry only on the path its zero test
\* opens, and that test opens it exactly when the entry's counter is zero;
\* with a positive counter the sweep leaves the map alone and the entry, if
\* cached, untouched.
C8_CloseOnlyAtZero ==
    [][/\ \A w \in Workers :
            (pc[w] = "zeroCheck" /\ pc'[w] # "zeroCheck") =>
               IF clients[ext[w]].usageCounter = 0
               THEN pc'[w] = "close" /\ cache' = cache /\ clients' = clients
               ELSE /\ pc'[w] = "range"
                    /\ cache' = cache
                    /\ cache[key[w]] = ext[w]
                          => clients'[ext[w]] = clients[ext[w]]
       /\ \A w \in Workers :
            /\ (pc'[w] = "close" /\ pc[w] # "close") => pc[w] = "zeroCheck"
            /\ (pc'[w] = "loadAndDelete" /\ pc[w] # "loadAndDelete")
                  => pc[w] = "close"
       /\ \A c \in ClientIds :
            (clients[c].stored /\ clients'[c].closes > clients[c].closes)
               => \E w \in Workers : pc[w] = "close" /\ ext[w] = c
                                      /\ pc'[w] = "loadAndDelete"
       /\ \A d \in Digests :
            (cache[d] # None /\ cache'[d] = None)
               => \E w \in Workers : pc[w] = "loadAndDelete" /\ key[w] = d
                                      /\ pc'[w] = "range"]_vars

\* C8 witness: a serial sweep has finished its round over the map and kept
\* an entry whose counter stayed positive (cached, open), after an earlier
\* sweep closed and evicted an entry whose counter had reached zero.
C8_Witness ==
    /\ serial
    /\ \E w \in Workers :
         /\ pc[w] = "range" /\ todo[w] = {}
         /\ \E d \in Digests :
              /\ cache[d] # None
              /\ clients[cache[d]].usageCounter > 0
              /\ clients[cache[d]].closes = 0
    /\ [stored |-> TRUE, closes |-> 1] \in retired

\* C9: Close is called at most once on any client (stated as the claim; the
\* code violates it).
C9_CloseAtMostOnce ==
    /\ \A c \in ClientIds : clients[c].closes <= 1
    /\ \A r \in retired : r.closes <= 1

\* C10: Connect dials a client only when the map has no entry for its
\* digest (stated as the claim; the code violates it).
C10_DialOnlyOnCreate ==
    [][\A w \in Workers :
         (pc[w] = "idle" /\ pc'[w] = "loadOrStore")
            => cache[hash(creds'[w])] = None]_vars

\* C11: a Connect whose client construction fails (malformed configuration,
\* missing or invalid TLS material, dial failure) ends with the error and
\* without a handle, and neither of its steps changes the map or any entry
\* (no entry added, no reference count changed).
C11_FailedConnectLeavesCache ==
    [][\A w \in Workers :
         /\ (/\ pc[w] = "idle" /\ pc'[w] # "idle"
             /\ NewTemporalService(Config(creds'[w])).err # "none")
               => /\ pc'[w] = "failed"
                  /\ cache' = cache /\ clients' = clients
                  /\ own'[w] = None /\ ext'[w] = None
         /\ (pc[w] = "failed" /\ pc'[w] # "failed")
               => /\ pc'[w] = "idle"
                  /\ cache' = cache /\ clients' = clients
                  /\ own'[w] = None /\ ext'[w] = None]_vars

\* C11 witness: a Connect has failed while the map holds an entry that
\* another reconcile is using (counter 1, open).
C11_Witness ==
    \E w \in Workers :
        /\ pc[w] = "failed"
        /\ creds[w] \in BadCreds
        /\ \E v \in Workers :
             /\ pc[v] = "connected"
             /\ cache[hash(creds[v])] = ext[v]
             /\ clients[ext[v]].usageCounter = 1
             /\ clients[ext[v]].closes = 0

\* C12: with useTLS true and any one of CA certificate, client certificate
\* and client key empty, NewTemporalService returns the configuration error
\* without dialing; with useTLS false the TLS fields play no part (a
\* reachable host gives a service whatever they hold).
C12_TLSMaterialRequired ==
    (svcRes # NotCalled /\ svcConf.json) =>
       /\ (/\ svcConf.useTLS
           /\ (svcConf.caCertPem = "" \/ svcConf.certPem = ""
                  \/ svcConf.keyPem = ""))
             => /\ svcRes.err = "TLS is enabled but one or more of the certificates or key are missing"
                /\ ~svcRes.dial
       /\ ~svcConf.useTLS
             => /\ svcRes.dial
                /\ svcRes.err = IF svcConf.hostPort = "up:7233" THEN "none"
                                ELSE "failed to dial Temporal client"

\* C12 witness: TLS requested, only the client key is missing, and the
\* call has returned.
C12_Witness ==
    /\ svcRes # NotCalled
    /\ svcConf.json /\ svcConf.useTLS
    /\ svcConf.caCertPem = "pem" /\ svcConf.certPem = "pem"
    /\ svcConf.keyPem = ""
    /\ ~svcRes.dial

\* what DescribeNamespaceByName returns for name n now (the call gets
\* through)
Described(rem, n) == DescribeNamespaceByName(rem, n, TRUE).namespace

\* the names ListAllNamespaces returns now
ListedNames(rem, others) ==
    LET l == ListAllNamespaces(rem, others, TRUE).namespaces
    IN  {l[i].name : i \in 1..Len(l)}

\* C13: for all valid parameters P, CreateNamespace(P) on a service that
\* has no namespace of that name, followed by DescribeNamespaceByName(P.name),
\* gives an observation whose MapToNamespaceCompare equals that of P (stated
\* as the claim; the code violates it).
C13_CreateThenDescribeEqual ==
    (last.op = "create" /\ last.err = "none" /\ last.fresh
        /\ last.outcome = "ok")
    => /\ Described(remote, last.name) # Nil
       /\ cmpEqual(MapToNamespaceCompare(Described(remote, last.name)[1]),
                   MapToNamespaceCompare(last.params[1]))

\* C14: when the remote namespace holds exactly what the desired
\* parameters ask for, an optional field given as "" or an empty data map
\* included, Observe reports ResourceUpToDate = true (stated as the claim;
\* the code violates it).
C14_EmptyOptionalNoDrift ==
    \A p \in Params :
        (/\ remote[p.name] # Nil
         /\ remote[p.name][1] = RegisteredNamespace(RegisterNamespaceRequest(p)))
        => Observe(remote, Managed(p), TRUE).ResourceUpToDate

\* C15: with fixed desired parameters, no remote failure and no other
\* writer, the loop Observe -> (Create | Update) eventually reaches an
\* Observe that reports ResourceExists and ResourceUpToDate, and every later
\* Observe reports the same (stated as the claim; the code violates it).
C15_ReconcileConverges ==
    <>[](observation.ResourceExists /\ observation.ResourceUpToDate)

\* C16: a CreateNamespace that repeats the call before it (same name and
\* parameters, which returned no error) and gets through returns no error,
\* and when it returns exactly one namespace of that name exists, is
\* described and is listed at most once.
C16_CreateIdempotent ==
    [][(last' # last /\ last'.op = "create" /\ last'.again
          /\ last'.outcome = "ok")
         => /\ last'.err = "none"
            /\ Described(remote', last'.name) # Nil
            /\ Described(remote', last'.name)[1].name = last'.name
            /\ Cardinality({n \in RemoteNames :
                              /\ remote'[n] # Nil
                              /\ remote'[n][1].name = last'.name}) = 1
            /\ LET l == ListAllNamespaces(remote', crowd', TRUE).namespaces
               IN  Cardinality({i \in 1..Len(l) : l[i].name = last'.name}) <= 1
      ]_vars

\* C16 witness: the second of two equal creates has returned, answered
\* by the remote with already-exists.
C16_Witness ==
    /\ last.op = "create" /\ last.again /\ last.outcome = "ok"
    /\ ~last.fresh
    /\ last.err = "none"

\* C17: a DeleteNamespaceByName that follows a DeleteNamespaceByName of the
\* same name returns no error unless a remote call fails outright, and
\* afterwards ListAllNamespaces does not contain the namespace.
C17_DeleteTwice ==
    (/\ last.op = "delete" /\ last.again
     /\ last.outcome \notin {"describe failed", "Unavailable"})
    => /\ last.err = "none"
       /\ last.name \notin ListedNames(remote, crowd)

\* C17 witness: the second delete found the namespace still there, marked
\* Deleted by the first, and the remote refused to delete it again.
C17_Witness ==
    /\ last.op = "delete" /\ last.again
    /\ last.outcome = "NamespaceInvalidState"
    /\ remote[last.name] # Nil

\* C18 as claimed: the nil marker and no error both when the namespace was
\* already gone and when the remote delete call reports invalid-state or
\* not-found; the deleted marker only when the remote delete succeeded.
C18_AbsentOnRefusedDelete ==
    last.op = "delete" =>
       /\ last.outcome \in {"absent", "NamespaceInvalidState",
                            "NamespaceNotFound"}
             => (last.marker = Nil /\ last.err = "none")
       /\ last.marker # Nil => last.outcome = "ok"

\* C18 as amended: the marker is nil exactly when the describe call found
\* no namespace; when it found one the marker is the namespace's name
\* whatever the delete call reports, with no error for success,
\* invalid-state and not-found and with the error otherwise.
C18_MarkerIffDescribed ==
    last.op = "delete" =>
       /\ last.outcome = "absent" => (last.marker = Nil /\ last.err = "none")
       /\ last.outcome = "describe failed"
             => (last.marker = Nil /\ last.err = "Unavailable")
       /\ last.outcome \in {"ok", "NamespaceInvalidState", "NamespaceNotFound"}
             => (last.marker = Ptr(last.name) /\ last.err = "none")
       /\ last.outcome = "Unavailable"
             => (last.marker = Ptr(last.name) /\ last.err = "Unavailable")

\* C18 witness: the remote refused the delete (invalid state) and the call
\* returned the name with no error.
C18_Witness ==
    /\ last.op = "delete"
    /\ last.outcome = "NamespaceInvalidState"
    /\ last.marker = Ptr(last.name)
    /\ last.err = "none"

\* C19: after UpdateNamespaceByName(newParams) has returned without error,
\* DescribeNamespaceByName(newParams.name) gives an observation whose
\* projection equals that of newParams, and what is described for every
\* other namespace is as before the call (stated as the claim; the code
\* violates it).
C19_UpdateThenDescribe ==
    [][(last' # last /\ last'.op = "update" /\ last'.err = "none")
         => /\ Described(remote', last'.name) # Nil
            /\ cmpEqual(MapToNamespaceCompare(Described(remote', last'.name)[1]),
                        MapToNamespaceCompare(last'.params[1]))
            /\ \A n \in UserNames \ {last'.name} :
                  Described(remote', n) = Described(remote, n)]_vars

\* C20: what ListAllNamespaces returns is exactly the remote's namespaces
\* that are neither the reserved one nor in state Deleted (stated as the
\* claim; the code violates it).
C20_ListExact ==
    (last.op = "list" /\ last.err = "none")
    => {last.names[i] : i \in 1..Len(last.names)}
         = {n \in UserNames : remote[n] # Nil /\ remote[n][1].state # 3}
              \cup {OtherName(i) : i \in (crowd.deleted + 1)..crowd.count}

\* C21: DescribeNamespaceByName returns no observation and no error when
\* the remote reports namespace-not-found, and no observation and the
\* remote's error for any other error of the remote.
C21_DescribeAbsentOrError ==
    last.op = "describe" =>
       /\ last.outcome = "NamespaceNotFound"
             => (last.namespace = Nil /\ last.err = "none")
       /\ last.outcome \notin {"ok", "NamespaceNotFound"}
             => (last.namespace = Nil /\ last.err = last.outcome)
       /\ last.outcome = "ok" => (last.namespace # Nil /\ last.err = "none")

\* C21 witness: a describe of a namespace the remote does not have has
\* returned nil and no error.
C21_Witness ==
    /\ last.op = "describe"
    /\ last.outcome = "NamespaceNotFound"
    /\ remote[last.name] = Nil
    /\ last.namespace = Nil /\ last.err = "none"

\* C23: after CreateSearchAttribute(namespace, name, type) has returned
\* without error, DescribeSearchAttributeByName(namespace, name) gives an
\* observation with that name, type and namespace; after
\* DeleteSearchAttributeByName has returned without error the attribute is
\* not among those listed for the namespace.
C23_SearchAttributeRoundTrip ==
    LET d == DescribeSearchAttributeByName(attrs, saLast.namespace,
                                           saLast.name, TRUE)
        l == ListSearchAttributesByNamespace(attrs, saLast.namespace, TRUE)
    IN  /\ (saLast.op = "create" /\ saLast.err = "none")
              => /\ d.err = "none"
                 /\ d.searchAttribute # Nil
                 /\ d.searchAttribute[1].name = saLast.name
                 /\ d.searchAttribute[1].type = saLast.type
                 /\ d.searchAttribute[1].temporalNamespaceName
                        = saLast.namespace
        /\ (saLast.op = "delete" /\ saLast.err = "none")
              => \A a \in l.customAttributes : a.name # saLast.name

\* C23 witness: an attribute of type Int has been created next to another
\* attribute of the namespace.
C23_Witness ==
    /\ saLast.op = "create" /\ saLast.err = "none"
    /\ saLast.type = "Int"
    /\ attrs[saLast.namespace] # Nil
    /\ Cardinality(attrs[saLast.namespace][1]) = 2

\* C25: a CreateSearchAttribute that the remote answers with
\* already-exists returns no error (stated as the claim; the code violates
\* it).
C25_SearchAttributeExistsIsSuccess ==
    (saLast.op = "create" /\ saLast.answer = "AlreadyExists")
    => saLast.err = "none"

\* C26: a DeleteSearchAttributeByName that the remote answers with
\* not-found returns no error (stated as the claim; the code violates it).
C26_SearchAttributeGoneIsSuccess ==
    (saLast.op = "delete" /\ saLast.answer = "NotFound")
    => saLast.err = "none"

\* the error of the SearchAttribute Update hook
Immutable == "can not be updated"

\* C22: the SearchAttribute Update hook returns the cannot-be-updated error
\* for every resource and in every state, makes no remote call and leaves
\* the remote and the resource as they are.
C22_UpdateAlwaysFails ==
    [][/\ \A p \in HookSaParams, up \in Availability :
             LET r == SearchAttributeUpdate(attrs', Managed(p), up) IN
             r.err = Immutable /\ r.calls = <<>> /\ r.attrs = attrs'
       /\ (IsSa /\ hk' # hk /\ hk'.hook = "Update")
             => /\ hk'.err = Immutable
                /\ hk'.calls = <<>>
                /\ attrs' = attrs
                /\ managed' = managed]_vars

\* C22 witness: the reconciler found the attribute with another type and
\* called Update.
C22_Witness ==
    /\ IsSa
    /\ hk.hook = "Update" /\ hk.err = Immutable
    /\ attrs["Test010"] # Nil
    /\ \E a \in attrs["Test010"][1] :
          /\ a[1] = managed.forProvider.name
          /\ IndexedValueTypeString(a[2]) # managed.forProvider.type

\* C24: a SearchAttribute Observe of a resource whose TemporalNamespaceName
\* is nil returns the not-set error, makes no remote call and leaves the
\* resource (status and conditions) and the remote as they are.
C24_UnresolvedNamespaceFails ==
    [][(/\ IsSa /\ phase = "observe" /\ phase' = "act"
        /\ managed.forProvider.temporalNamespaceName = Nil)
         => /\ hk'.hook = "Observe"
            /\ hk'.err = "TemporalNamespaceName not set"
            /\ observation'.err = "TemporalNamespaceName not set"
            /\ hk'.calls = <<>>
            /\ managed' = managed
            /\ attrs' = attrs]_vars

\* C24 witness: Observe of a resource with an unresolved namespace name has
\* returned.
C24_Witness ==
    /\ IsSa /\ phase = "act"
    /\ hk.hook = "Observe"
    /\ managed.forProvider.temporalNamespaceName = Nil
    /\ hk.err = "TemporalNamespaceName not set"

\* the remote errors that an operation answers with success
Tolerated(call) ==
    CASE call = "DescribeNamespace" -> {"NamespaceNotFound"}
      [] call = "RegisterNamespace" -> {"NamespaceAlreadyExists"}
      [] call = "DeleteNamespace"   -> {"NamespaceInvalidState",
                                        "NamespaceNotFound"}
      [] OTHER                      -> {}

\* C28: every error the remote answers a wire call with, other than
\* not-found on a namespace describe, already-exists on a namespace create
\* and invalid-state / not-found on a namespace delete, is the error the
\* service operation returns and the error the hook returns.
C28_NoErrorSwallowed ==
    \A i \in 1..Len(hk.calls) :
        (hk.answers[i] # "ok" /\ hk.answers[i] \notin Tolerated(hk.calls[i]))
        => (hk.svcErr = hk.answers[i] /\ hk.err = hk.answers[i])

\* C28 witness: the remote delete call of the namespace Delete hook failed
\* after its describe call had succeeded, and the hook returned the error.
C28_Witness ==
    /\ IsNs
    /\ hk.hook = "Delete"
    /\ hk.answers = <<"ok", "Unavailable">>
    /\ hk.err = "Unavailable"

\* C29: a namespace Observe that finds the namespace writes the whole
\* observation into the status and sets the condition for the remote state:
\* Registered -> Available, Unspecified -> Unavailable, Deleted -> Deleting.
C29_ObserveStatusAndCondition ==
    [][(/\ IsNs /\ phase = "observe" /\ phase' = "act"
        /\ hk'.answers = <<"ok">>
        /\ remote[managed.forProvider.name] # Nil)
         => LET r == remote[managed.forProvider.name][1] IN
            /\ managed'.atProvider # Nil
            /\ DOMAIN managed'.atProvider[1] = CompareFields \cup {"id", "state"}
            /\ managed'.atProvider[1] = mapDescribeNamespaceResponse(r)
            /\ managed'.atProvider[1].id = r.id
            /\ r.state = 1 => /\ managed'.atProvider[1].state = "Registered"
                              /\ managed'.condition = "Available"
            /\ r.state = 0 => /\ managed'.atProvider[1].state = "Unspecified"
                              /\ managed'.condition = "Unavailable"
            /\ r.state = 3 => /\ managed'.atProvider[1].state = "Deleted"
                              /\ managed'.condition = "Deleting"]_vars

\* C29 witness: Observe has found the namespace in state Deleted after it
\* had found it Registered.
C29_Witness ==
    /\ IsNs /\ phase = "act"
    /\ hk.hook = "Observe" /\ hk.err = "none"
    /\ managed.atProvider # Nil
    /\ managed.atProvider[1].state = "Deleted"
    /\ managed.condition = "Deleting"

\* C30: a namespace Observe that finds the namespace reports
\* ResourceUpToDate exactly when every field of NamespaceCompare is equal in
\* the desired parameters and in the observation; another id or state of
\* the remote namespace gives the same answer.
C30_UpToDateIffProjectionsEqual ==
    [][(/\ IsNs /\ phase = "observe" /\ phase' = "act"
        /\ hk'.answers = <<"ok">>
        /\ remote[managed.forProvider.name] # Nil)
         => LET n == managed.forProvider.name
                r == remote[n][1]
                o == mapDescribeNamespaceResponse(r)
            IN
            /\ observation'.ResourceExists
            /\ observation'.ResourceUpToDate
                  = (\A f \in CompareFields : managed.forProvider[f] = o[f])
            /\ \A id \in {r.id, "another id"}, st \in 0..3 :
                  Observe([remote EXCEPT ![n] =
                              Ptr([r EXCEPT !.id = id, !.state = st])],
                          managed, TRUE).ResourceUpToDate
                     = observation'.ResourceUpToDate]_vars

\* C30 witness: Observe has reported a namespace in state Deleted as up to
\* date.
C30_Witness ==
    /\ IsNs /\ phase = "act"
    /\ hk.hook = "Observe"
    /\ observation.ResourceExists /\ observation.ResourceUpToDate
    /\ managed.atProvider[1].state = "Deleted"

\* C27: for d >= 1 days the duration sent by CreateNamespace and by
\* UpdateNamespaceByName is d * 24h exactly, the same in both, and reading
\* it back gives d; and the days read back for any remote duration stand for
\* that very duration, so none that is not a whole multiple of 24h is cut
\* to a day count (stated as the claim; the code violates it).
C27_RetentionExact ==
    /\ retIn.kind = "days"
          => /\ RegisterNamespaceRequest(WithRetention(retIn.days))
                     .workflowExecutionRetentionPeriod
                  = UpdateNamespaceRequest(WithRetention(retIn.days))
                        .workflowExecutionRetentionTtl
             /\ retOut.kind \in {"create", "update"}
                   => retOut.ttl = Hours(retIn.days * 24)
             /\ retOut.kind = "days" => retOut.days = retIn.days
    /\ retOut.kind = "days" => retOut.ttl = Hours(retOut.days * 24)

\* C31: a namespace Observe that finds the namespace absent returns
\* ResourceExists = FALSE and ResourceUpToDate = FALSE with no error, and an
\* Observe whose describe call fails returns that error; both leave the
\* resource (status observation, condition, external name) as it was.
C31_ObserveAbsentOrFailed ==
    [][(/\ IsNs /\ phase = "observe" /\ phase' = "act")
         => /\ hk'.answers = <<"NamespaceNotFound">>
                 => /\ observation' = [ResourceExists |-> FALSE,
                                       ResourceUpToDate |-> FALSE,
                                       err |-> "none"]
                    /\ hk'.err = "none"
                    /\ managed' = managed
            /\ hk'.answers[1] \notin {"ok", "NamespaceNotFound"}
                 => /\ hk'.err = hk'.answers[1]
                    /\ observation'.err = hk'.answers[1]
                    /\ managed' = managed]_vars

\* C31 witness: Observe has found the namespace absent after an earlier
\* Observe had written a status and a condition, and both are still there.
C31_Witness ==
    /\ IsNs /\ phase = "act"
    /\ hk.hook = "Observe" /\ hk.answers = <<"NamespaceNotFound">>
    /\ ~observation.ResourceExists /\ observation.err = "none"
    /\ managed.atProvider # Nil
    /\ managed.condition = "Available"

\* C32: the namespace Create hook sets the external name to the
\* namespace name and returns no error when the remote registered the
\* namespace or answered already-exists; when the remote call fails
\* otherwise (an unexpected error, or the call is cut off) the hook returns
\* the error and the external name is as it was.  Nothing else of the
\* resource changes.
C32_CreateRecordsExternalName ==
    [][(/\ IsNs /\ phase = "act" /\ phase' = "observe"
        /\ hk'.hook = "Create")
         => /\ hk'.answers[1] \in {"ok", "NamespaceAlreadyExists"}
                 => /\ hk'.err = "none"
                    /\ managed' = [managed EXCEPT
                                     !.externalName = managed.forProvider.name]
            /\ hk'.answers[1] \notin {"ok", "NamespaceAlreadyExists"}
                 => /\ hk'.err # "none"
                    /\ managed' = managed]_vars

\* C32 witness: Create was answered already-exists (another client had
\* registered the namespace after Observe) and the external name is set.
C32_Witness ==
    /\ IsNs /\ phase = "observe"
    /\ hk.hook = "Create" /\ hk.answers = <<"NamespaceAlreadyExists">>
    /\ hk.err = "none"
    /\ managed.externalName = "Test001"

\* C33: the namespace Delete hook returns no error when the describe call
\* finds the namespace absent, and when the delete call is answered ok,
\* invalid-state or not-found; it returns an error exactly when the
\* describe call or the delete call fails with another error, and then it
\* returns that error.  The delete call is made only after a describe that
\* found the namespace.
C33_DeletePermissive ==
    [][(/\ IsNs /\ phase \in {"act", "deleting"} /\ phase' = "observe"
        /\ hk'.hook = "Delete")
         => LET a == hk'.answers
                absent == a = <<"NamespaceNotFound">>
                settled == /\ Len(a) = 2 /\ a[1] = "ok"
                           /\ a[2] \in {"ok", "NamespaceInvalidState",
                                        "NamespaceNotFound"}
            IN  /\ hk'.err = "none" <=> (absent \/ settled)
                /\ hk'.err # "none" => hk'.err = a[Len(a)]
                /\ Len(a) = 2 => a[1] = "ok"
                /\ managed' = managed]_vars

\* C33 witness: the Delete hook found the namespace, the remote refused the
\* delete with invalid-state (the namespace was already in state Deleted),
\* and the hook returned no error.
C33_Witness ==
    /\ IsNs /\ phase = "observe"
    /\ hk.hook = "Delete"
    /\ hk.answers = <<"ok", "NamespaceInvalidState">>
    /\ hk.err = "none"

\* C34: the search attribute Create hook sets the external name to
\* "<namespace>.<name>" and returns no error when the remote added the
\* attribute; when the remote call fails the hook returns an error and the
\* external name is as it was.  Nothing else of the resource changes.
C34_CreateRecordsCompositeName ==
    [][(/\ IsSa /\ phase = "act" /\ phase' = "observe"
        /\ hk'.hook = "Create")
         => LET p == managed.forProvider IN
            /\ hk'.calls = <<"AddSearchAttributes">>
            /\ hk'.answers[1] = "ok"
                 => /\ hk'.err = "none"
                    /\ managed' = [managed EXCEPT !.externalName =
                          p.temporalNamespaceName[1] \o "." \o p.name]
                    /\ (p.temporalNamespaceName = Ptr("Test010")
                            /\ p.name = "test1")
                         => managed'.externalName = "Test010.test1"
            /\ hk'.answers[1] # "ok"
                 => /\ hk'.err # "none"
                    /\ managed' = managed]_vars

\* C34 witness: the Create hook has added the attribute test1 to the
\* namespace Test010 and the external name is the composite.
C34_Witness ==
    /\ IsSa /\ phase = "observe"
    /\ hk.hook = "Create" /\ hk.answers = <<"ok">> /\ hk.err = "none"
    /\ managed.externalName = "Test010.test1"
    /\ attrs["Test010"] # Nil
    /\ Defined(attrs["Test010"][1], "test1")

\* C35: every hook call makes a fixed, bounded sequence of remote calls and
\* none after a failed one: a namespace Observe, Create and Update one call
\* each, a namespace Delete one describe and then at most one delete, a
\* search attribute Observe at most one list call, Create one add call,
\* Delete one remove call, Update none; no call is made twice.
C35_NoInternalRetry ==
    LET c == hk.calls
        a == hk.answers
    IN  /\ Len(a) = Len(c)
        /\ \A i \in 1..Len(c) : \A j \in 1..Len(c) : c[i] = c[j] => i = j
        /\ \A i \in 1..(Len(c) - 1) : a[i] = "ok"
        /\ (IsNs /\ hk.hook = "Observe") => c = <<"DescribeNamespace">>
        /\ (IsNs /\ hk.hook = "Create")  => c = <<"RegisterNamespace">>
        /\ (IsNs /\ hk.hook = "Update")  => c = <<"UpdateNamespace">>
        /\ (IsNs /\ hk.hook \in {"Deleting", "Delete"})
              => c \in {<<"DescribeNamespace">>,
                        <<"DescribeNamespace", "DeleteNamespace">>}
        /\ (IsSa /\ hk.hook = "Observe")
              => c \in {<<>>, <<"ListSearchAttributes">>}
        /\ (IsSa /\ hk.hook = "Create")  => c = <<"AddSearchAttributes">>
        /\ (IsSa /\ hk.hook = "Update")  => c = <<>>
        /\ (IsSa /\ hk.hook = "Delete")  => c = <<"RemoveSearchAttributes">>

\* C35 witness: the remove call of a search attribute Delete failed, the
\* hook returned the error, and that call was the only one.
C35_Witness ==
    /\ IsSa /\ hk.hook = "Delete"
    /\ hk.calls = <<"RemoveSearchAttributes">>
    /\ hk.answers = <<"Unavailable">>
    /\ hk.err = "Unavailable"

\* C37: DeleteNamespaceByName describes first and makes the remote delete
\* call exactly when that describe returned a namespace (in whatever
\* state); when the describe finds the namespace absent or fails, no delete
\* call is made and the remote is as it was.
C37_DescribeBeforeDelete ==
    [][(/\ IsNs /\ phase \in {"act", "deleting"} /\ phase' = "observe"
        /\ hk'.hook = "Delete")
         => LET c == hk'.calls
                a == hk'.answers
            IN  /\ c[1] = "DescribeNamespace"
                /\ a[1] = "ok" <=> c = <<"DescribeNamespace", "DeleteNamespace">>
                /\ a[1] = "ok" => (phase = "deleting" /\ hk.described # Nil)
                /\ a[1] # "ok" => /\ c = <<"DescribeNamespace">>
                                  /\ phase = "act"
                                  /\ remote' = remote]_vars

\* C37 witness: the namespace was removed remotely after Observe had seen
\* it; the Delete hook's describe found it absent and no delete call was
\* made.
C37_Witness ==
    /\ IsNs /\ phase = "observe"
    /\ hk.hook = "Delete"
    /\ hk.calls = <<"DescribeNamespace">>
    /\ hk.answers = <<"NamespaceNotFound">>
    /\ remote[managed.forProvider.name] = Nil

\* C38: a namespace Observe that finds the namespace in a state other than
\* Registered, Unspecified and Deleted (Deprecated) writes the observation
\* into the status and reports existence and up-to-date as for any other
\* state, and leaves the condition as it was before the call.
C38_OtherStateKeepsCondition ==
    [][(/\ IsNs /\ phase = "observe" /\ phase' = "act"
        /\ hk'.answers = <<"ok">>
        /\ remote[managed.forProvider.name] # Nil
        /\ remote[managed.forProvider.name][1].state \notin {0, 1, 3})
         => LET r == remote[managed.forProvider.name][1] IN
            /\ managed'.atProvider = Ptr(mapDescribeNamespaceResponse(r))
            /\ managed'.atProvider[1].state = "Deprecated"
            /\ managed'.condition = managed.condition
            /\ managed' = [managed EXCEPT !.atProvider = managed'.atProvider]
            /\ hk'.err = "none"
            /\ observation'.ResourceExists
            /\ observation'.ResourceUpToDate
                 = (\A f \in CompareFields :
                      MapToNamespaceCompare(managed.forProvider)[f]
                        = MapToNamespaceCompare(managed'.atProvider[1])[f])]_vars

\* C38 witness: Observe has found the namespace Deprecated after an earlier
\* Observe had found it Registered; the status says Deprecated and the
\* condition is still Available.
C38_Witness ==
    /\ IsNs /\ phase = "act"
    /\ hk.hook = "Observe" /\ hk.err = "none"
    /\ managed.atProvider # Nil
    /\ managed.atProvider[1].state = "Deprecated"
    /\ managed.condition = "Available"

\* C36: when the LoadAndDelete of a Disconnect sweep removes an entry, the
\* entry is the client the sweep has just closed; no entry whose client is
\* still open is removed (stated as the claim; the code violates it).
C36_SweepRemovesWhatItClosed ==
    [][\A w \in Workers :
         (/\ pc[w] = "loadAndDelete" /\ pc'[w] = "range"
          /\ cache[key[w]] # None)
         => /\ cache[key[w]] = ext[w]
            /\ clients[cache[key[w]]].closes >= 1]_vars

====
